---------------------------- MODULE Spec2Model ----------------------------
(***************************************************************************)
(* A model of the resonate durable-promise server: the SQLite store's      *)
(* commands (sqlite.go), the ReadPromise and RejectPromise coroutines, and *)
(* the collaborators the coroutines race with (promise creation, other     *)
(* completion verbs, subscriptions, the timeout sweeper, the kernel        *)
(* clock).                                                                 *)
(***************************************************************************)
EXTENDS Integers, Sequences, FiniteSets, TLC

VARIABLES
    time,           \* the kernel's logical clock, Time()
    promises,       \* the promises table: id -> Null or <<record>>
    subscriptions,  \* the subscriptions table: a set of rows
    notifications,  \* the notifications table: a set of rows
    timeouts,       \* the timeouts table: a set of rows
    deliveries,     \* the notifications the sender has read and is delivering
    reqs,           \* the API requests and their coroutines
    subreq,         \* the CreateSubscription request in flight, if any
    winner          \* history: per promise, whose transaction took it out of Pending

vars ==
    <<time, promises, subscriptions, notifications, timeouts, deliveries,
      reqs, subreq, winner>>

----------------------------------------------------------------------------
(* Bounds of the model *)

MaxTime == 2
MaxTimeout == 1
MaxLimit == 2
MaxAttempt == 2
MaxInFlight == 2

(* Values the inputs are drawn from *)

PIds == {"p1", "p2", "p3"}
Served == {"p1"}
Swept == {"p1", "p2"}
SIds == {"s1", "s2"}
Urls == {"u1", "u2"}
Keys == {"k1", "k2"}
Reqs == {1, 2}
Timeouts == 1 .. MaxTimeout

(* A nullable column or pointer: Null, or Some(x) *)

Null == << >>
Some(x) == << x >>
Get(o) == o[1]

(* Promise states (pkg/promise), by name *)

Pending == "Pending"
Resolved == "Resolved"
Rejected == "Rejected"
Canceled == "Canceled"
Timedout == "Timedout"
Terminal == {Resolved, Rejected, Canceled, Timedout}

(* Response statuses *)

StatusOK == 200
StatusCreated == 201
StatusForbidden == 403
StatusNotFound == 404
StatusConflict == 409

(* The value request r carries; the empty values {Headers: {}, Data: []}   *)
(* and {Headers: {}, Data: nil}                                            *)

ValueOf(r) == IF r = 1 THEN "v1" ELSE "v2"
EmptyValue == "empty"
EmptyValueNilData == "empty-nil"
DefaultRetryPolicy == "rp"

(* The param and tags CreatePromise request r carries, and those of a      *)
(* promise created by no request of the model                              *)

ParamOf(r) == IF r = 1 THEN "a1" ELSE "a2"
TagsOf(r) == IF r = 1 THEN "t1" ELSE "t2"
DefaultParam == "a0"
DefaultTags == "t0"

----------------------------------------------------------------------------
(* The store: each command as the SQL statement it executes.  A database   *)
(* is a record [p, s, n, t] of the promises, subscriptions, notifications   *)
(* and timeouts tables; a command returns the database after it and its    *)
(* result.                                                                 *)

Exists(P, id) == P[id] # Null
Row(P, id) == Get(P[id])

\* The record PROMISE_SELECT_STATEMENT gives for id, if any.  The statement
\* does not select sort_id: the record's SortId keeps its zero value.
Scanned(P, id) ==
    IF Exists(P, id) THEN Some([Row(P, id) EXCEPT !.sortId = 0]) ELSE Null

\* PROMISE_SELECT_STATEMENT: rowsReturned and the record
readPromise(db, cmd) ==
    [db |-> db,
     rows |-> IF Exists(db.p, cmd.id) THEN 1 ELSE 0,
     record |-> Scanned(db.p, cmd.id)]

\* The promise a CreatePromise command describes: Pending, no value, no
\* completion, and no sort id of its own
InsertedPromise(cmd) ==
    [id |-> cmd.id, state |-> Pending, param |-> cmd.param, value |-> Null,
     timeout |-> cmd.timeout, ikCreate |-> cmd.ikey, ikc |-> Null,
     tags |-> cmd.tags, createdOn |-> cmd.createdOn, completedOn |-> Null,
     sortId |-> 0]

\* sort_id INTEGER PRIMARY KEY AUTOINCREMENT: one more than the largest
\* sort_id the table ever held; no statement deletes a promise
NextSortId(P) == Cardinality({id \in PIds : Exists(P, id)}) + 1

\* PROMISE_INSERT_STATEMENT: ... ON CONFLICT(id) DO NOTHING
createPromiseReplace(db, cmd) ==
    [db |-> [db EXCEPT !.p[cmd.id] =
                Some([InsertedPromise(cmd) EXCEPT
                         !.sortId = NextSortId(db.p)])],
     rows |-> 1]
createPromise(db, cmd) ==
    IF Exists(db.p, cmd.id)
    THEN [db |-> db, rows |-> 0]
    ELSE [db |-> [db EXCEPT !.p[cmd.id] =
                     Some([InsertedPromise(cmd) EXCEPT
                              !.sortId = NextSortId(db.p)])],
          rows |-> 1]

\* The characters of each promise id, an opaque string the client chose
IdText(id) ==
    CASE id = "p1" -> <<"a", "b">>
      [] id = "p2" -> <<"a", "_">>
      [] id = "p3" -> <<"A", "b">>

\* searchPromises: query := strings.ReplaceAll(cmd.Q, "*", "%")
ConvertQuery(q) == [i \in DOMAIN q |-> IF q[i] = "*" THEN "%" ELSE q[i]]

\* id LIKE ?, as SQLite evaluates it: % matches any run of characters, _
\* any one character, and a letter matches itself in either case
Lower(ch) ==
    CASE ch = "A" -> "a"
      [] ch = "B" -> "b"
      [] OTHER -> ch

RECURSIVE Like(_, _)
Like(text, pattern) ==
    IF pattern = << >> THEN text = << >>
    ELSE IF Head(pattern) = "%"
    THEN \E k \in 0 .. Len(text) :
            Like(SubSeq(text, k + 1, Len(text)), Tail(pattern))
    ELSE /\ text # << >>
         /\ Head(pattern) = "_" \/ Lower(Head(pattern)) = Lower(Head(text))
         /\ Like(Tail(text), Tail(pattern))

\* The integer a state is stored as
StateCode(state) ==
    CASE state = Pending -> 1
      [] state = Resolved -> 2
      [] state = Rejected -> 4
      [] state = Timedout -> 8
      [] state = Canceled -> 16

\* Go's | and SQLite's & on non-negative integers
RECURSIVE BitOr(_, _)
BitOr(a, b) ==
    IF a = 0 THEN b
    ELSE IF b = 0 THEN a
    ELSE (IF a % 2 = 1 \/ b % 2 = 1 THEN 1 ELSE 0)
         + 2 * BitOr(a \div 2, b \div 2)

RECURSIVE BitAnd(_, _)
BitAnd(a, b) ==
    IF a = 0 \/ b = 0 THEN 0
    ELSE (IF a % 2 = 1 /\ b % 2 = 1 THEN 1 ELSE 0)
         + 2 * BitAnd(a \div 2, b \div 2)

\* searchPromises: mask = mask | int(state), over cmd.States
RECURSIVE Mask(_)
Mask(states) ==
    IF states = << >> THEN 0
    ELSE BitOr(Mask(SubSeq(states, 1, Len(states) - 1)),
               StateCode(states[Len(states)]))

\* PROMISE_SEARCH_STATEMENT's WHERE clause:
\* (? IS NULL OR sort_id < ?) AND state & ? != 0 AND id LIKE ?
SearchWhereAtCursor(row, cmd) ==
    /\ cmd.sortId = Null \/ row.sortId <= Get(cmd.sortId)
    /\ BitAnd(StateCode(row.state), Mask(cmd.states)) # 0
    /\ Like(IdText(row.id), ConvertQuery(cmd.q))
SearchWhere(row, cmd) ==
    /\ cmd.sortId = Null \/ row.sortId < Get(cmd.sortId)
    /\ BitAnd(StateCode(row.state), Mask(cmd.states)) # 0
    /\ Like(IdText(row.id), ConvertQuery(cmd.q))

\* PROMISE_SEARCH_STATEMENT's ORDER BY sort_id DESC
RECURSIVE OrderBySortIdDesc(_)
OrderBySortIdDesc(rows) ==
    IF rows = {} THEN << >>
    ELSE LET first == CHOOSE row \in rows :
                         \A other \in rows : other.sortId <= row.sortId
         IN  << first >> \o OrderBySortIdDesc(rows \ {first})

\* PROMISE_SEARCH_STATEMENT's LIMIT ?: a negative limit is no limit
LimitRows(rows, limit) ==
    IF limit < 0 \/ Len(rows) <= limit THEN rows ELSE SubSeq(rows, 1, limit)

\* searchPromises: the loop over rows.Next(), from rowsReturned 0, no
\* records and lastSortId at its zero value
RECURSIVE ScanRows(_, _)
ScanRows(rows, result) ==
    IF rows = << >> THEN result
    ELSE ScanRows(Tail(rows),
                  [result EXCEPT !.records = Append(@, Head(rows)),
                                 !.lastSortId = Head(rows).sortId,
                                 !.rows = @ + 1])

\* searchPromises / PROMISE_SEARCH_STATEMENT
searchPromises(db, cmd) ==
    LET selected == {Row(db.p, id) : id \in
                        {id \in PIds : /\ Exists(db.p, id)
                                       /\ SearchWhere(Row(db.p, id), cmd)}}
    IN   ScanRows(LimitRows(OrderBySortIdDesc(selected), cmd.limit),
                 [db |-> db, rows |-> 0, lastSortId |-> 0, records |-> << >>])

\* PROMISE_UPDATE_STATMENT's WHERE clause: id = ? AND state = 1
UpdatePromiseWhereNoGuard(P, id) == Exists(P, id)
UpdatePromiseWhere(P, id) == Exists(P, id) /\ Row(P, id).state = Pending

\* PROMISE_UPDATE_STATMENT
updatePromiseNoRow(db, cmd) == [db |-> db, rows |-> 0]
updatePromise(db, cmd) ==
    IF UpdatePromiseWhere(db.p, cmd.id)
    THEN [db |-> [db EXCEPT !.p[cmd.id] =
                     Some([Row(db.p, cmd.id) EXCEPT
                              !.state = cmd.state, !.value = Some(cmd.value),
                              !.ikc = cmd.ikey,
                              !.completedOn = Some(cmd.completedOn)])],
          rows |-> 1]
    ELSE [db |-> db, rows |-> 0]

\* The rows PROMISE_UPDATE_TIMEOUT_STATEMENT and the two timeout statements
\* select: state = 1 AND timeout <= ?
ExpiringAnyState(P, t) ==
    {id \in PIds : Exists(P, id) /\ Row(P, id).timeout <= t}
Expiring(P, t) ==
    {id \in PIds : Exists(P, id) /\ Row(P, id).state = Pending
                                  /\ Row(P, id).timeout <= t}

\* PROMISE_UPDATE_TIMEOUT_STATEMENT: SET state = 8, completed_on = timeout
timeoutPromisesAtSweepTime(db, cmd) ==
    [db |-> [db EXCEPT !.p =
                [id \in PIds |->
                    IF id \in Expiring(db.p, cmd.time)
                    THEN Some([Row(db.p, id) EXCEPT
                                  !.state = Timedout,
                                  !.completedOn = Some(cmd.time)])
                    ELSE db.p[id]]],
     rows |-> Cardinality(Expiring(db.p, cmd.time))]
timeoutPromises(db, cmd) ==
    [db |-> [db EXCEPT !.p =
                [id \in PIds |->
                    IF id \in Expiring(db.p, cmd.time)
                    THEN Some([Row(db.p, id) EXCEPT
                                  !.state = Timedout,
                                  !.completedOn = Some(Row(db.p, id).timeout)])
                    ELSE db.p[id]]],
     rows |-> Cardinality(Expiring(db.p, cmd.time))]

\* SUBSCRIPTION_INSERT_STATEMENT: ... ON CONFLICT(id, promise_id) DO NOTHING
createSubscription(db, cmd) ==
    IF \E s \in db.s : s.id = cmd.id /\ s.promiseId = cmd.promiseId
    THEN [db |-> db, rows |-> 0]
    ELSE [db |-> [db EXCEPT !.s = @ \cup
                     {[id |-> cmd.id, promiseId |-> cmd.promiseId,
                       url |-> cmd.url, retryPolicy |-> cmd.retryPolicy]}],
          rows |-> 1]

\* SUBSCRIPTION_DELETE_ALL_STATEMENT: DELETE ... WHERE promise_id = ?
deleteSubscriptionsKeep(db, cmd) == [db |-> db, rows |-> 0]
deleteSubscriptions(db, cmd) ==
    [db |-> [db EXCEPT !.s = {s \in @ : s.promiseId # cmd.promiseId}],
     rows |-> Cardinality({s \in db.s : s.promiseId = cmd.promiseId})]

\* SUBSCRIPTION_DELETE_ALL_TIMEOUT_STATEMENT
timeoutDeleteSubscriptions(db, cmd) ==
    [db |-> [db EXCEPT !.s =
                {s \in @ : s.promiseId \notin Expiring(db.p, cmd.time)}],
     rows |-> Cardinality({s \in db.s :
                              s.promiseId \in Expiring(db.p, cmd.time)})]

\* The row NOTIFICATION_INSERT_STATEMENT selects for a subscription:
\* id, promise_id, url, retry_policy, ?, 0
NotificationOfWrongAttempt(s, t) ==
    [id |-> s.id, promiseId |-> s.promiseId, url |-> s.url,
     retryPolicy |-> s.retryPolicy, time |-> t, attempt |-> 1]
NotificationOf(s, t) ==
    [id |-> s.id, promiseId |-> s.promiseId, url |-> s.url,
     retryPolicy |-> s.retryPolicy, time |-> t, attempt |-> 0]

\* INSERT INTO notifications SELECT ... ON CONFLICT(id, promise_id) DO NOTHING
InsertNotificationsNoConflict(N, subs, t) ==
    N \cup {NotificationOf(s, t) : s \in subs}
InsertNotifications(N, subs, t) ==
    LET new == {NotificationOf(s, t) : s \in
                   {s \in subs : ~ \E n \in N : n.id = s.id
                                             /\ n.promiseId = s.promiseId}}
    IN  N \cup new

\* NOTIFICATION_INSERT_STATEMENT
createNotifications(db, cmd) ==
    LET subs == {s \in db.s : s.promiseId = cmd.promiseId}
        N == InsertNotifications(db.n, subs, cmd.time)
    IN  [db |-> [db EXCEPT !.n = N],
         rows |-> Cardinality(N) - Cardinality(db.n)]

\* NOTIFICATION_INSERT_TIMEOUT_STATEMENT
timeoutCreateNotifications(db, cmd) ==
    LET subs == {s \in db.s : s.promiseId \in Expiring(db.p, cmd.time)}
        N == InsertNotifications(db.n, subs, cmd.time)
    IN  [db |-> [db EXCEPT !.n = N],
         rows |-> Cardinality(N) - Cardinality(db.n)]

\* NOTIFICATION_UPDATE_STATEMENT: SET time = ?, attempt = ? WHERE id = ? AND
\* promise_id = ?
updateNotification(db, cmd) ==
    LET hit == {n \in db.n : n.id = cmd.id /\ n.promiseId = cmd.promiseId}
    IN  [db |-> [db EXCEPT !.n = (@ \ hit) \cup
                     {[n EXCEPT !.time = cmd.time, !.attempt = cmd.attempt] :
                         n \in hit}],
         rows |-> Cardinality(hit)]

\* NOTIFICATION_DELETE_STATEMENT: DELETE ... WHERE id = ? AND promise_id = ?
deleteNotification(db, cmd) ==
    LET hit == {n \in db.n : n.id = cmd.id /\ n.promiseId = cmd.promiseId}
    IN  [db |-> [db EXCEPT !.n = @ \ hit], rows |-> Cardinality(hit)]

\* TIMEOUT_INSERT_STATEMENT: ... ON CONFLICT(id) DO NOTHING
createTimeout(db, cmd) ==
    IF \E row \in db.t : row.id = cmd.id
    THEN [db |-> db, rows |-> 0]
    ELSE [db |-> [db EXCEPT !.t = @ \cup
                     {[id |-> cmd.id, time |-> cmd.time]}],
          rows |-> 1]

\* TIMEOUT_DELETE_STATEMENT: DELETE FROM timeouts WHERE id = ?
deleteTimeout(db, cmd) ==
    [db |-> [db EXCEPT !.t = {row \in @ : row.id # cmd.id}],
     rows |-> Cardinality({row \in db.t : row.id = cmd.id})]

\* performCommands: the switch on command.Kind
perform(db, cmd) ==
    CASE cmd.kind = "ReadPromise" -> readPromise(db, cmd)
      [] cmd.kind = "SearchPromises" -> searchPromises(db, cmd)
      [] cmd.kind = "CreatePromise" -> createPromise(db, cmd)
      [] cmd.kind = "UpdatePromise" -> updatePromise(db, cmd)
      [] cmd.kind = "TimeoutPromises" -> timeoutPromises(db, cmd)
      [] cmd.kind = "CreateTimeout" -> createTimeout(db, cmd)
      [] cmd.kind = "DeleteTimeout" -> deleteTimeout(db, cmd)
      [] cmd.kind = "CreateSubscription" -> createSubscription(db, cmd)
      [] cmd.kind = "DeleteSubscriptions" -> deleteSubscriptions(db, cmd)
      [] cmd.kind = "TimeoutDeleteSubscriptions" ->
            timeoutDeleteSubscriptions(db, cmd)
      [] cmd.kind = "CreateNotifications" -> createNotifications(db, cmd)
      [] cmd.kind = "TimeoutCreateNotifications" ->
            timeoutCreateNotifications(db, cmd)
      [] cmd.kind = "UpdateNotification" -> updateNotification(db, cmd)
      [] cmd.kind = "DeleteNotification" -> deleteNotification(db, cmd)

\* performCommands: the commands of a transaction in list order, each on the
\* database the previous one left; results[j] is the result of command j
RECURSIVE performCommands(_, _, _)
performCommands(db, commands, results) ==
    IF commands = << >>
    THEN [db |-> db, results |-> results]
    ELSE LET out == perform(db, Head(commands))
         IN  performCommands(out.db, Tail(commands), Append(results, out))

\* Execute, when no command fails and the commit succeeds
Execute(db, commands) == performCommands(db, commands, << >>)

DB ==
    [p |-> promises, s |-> subscriptions, n |-> notifications,
     t |-> timeouts]

\* performCommands, the inner loop, when the command at position failAt
\* returns an error (0: none does): return nil, err.  db is what the SQL
\* transaction has written so far.
RECURSIVE performCommandsFailing(_, _, _, _)
performCommandsFailing(db, commands, results, failAt) ==
    IF commands = << >>
    THEN [db |-> db, results |-> results, err |-> FALSE]
    ELSE IF failAt = Len(results) + 1
    THEN [db |-> db, results |-> << >>, err |-> TRUE]
    ELSE LET out == perform(db, Head(commands))
         IN  performCommandsFailing(out.db, Tail(commands),
                                    Append(results, out), failAt)

\* performCommands, the outer loop: the transactions of the batch in list
\* order, all in the one SQL transaction; fail = <<i, j>> names the command
\* j of transaction i that returns an error (<<0, 0>>: none does)
RECURSIVE performTransactionsApart(_, _, _, _)
performTransactionsApart(db, transactions, results, fail) ==
    IF transactions = << >>
    THEN [db |-> db, results |-> results, err |-> FALSE]
    ELSE LET i == Len(results) + 1
             out == performCommandsFailing(db, Head(transactions), << >>,
                                           IF fail[1] = i THEN fail[2] ELSE 0)
         IN  IF out.err
             THEN [db |-> out.db, results |-> << >>, err |-> TRUE]
             ELSE performTransactionsApart(db, Tail(transactions),
                                           Append(results, out.results),
                                           fail)

RECURSIVE performTransactions(_, _, _, _)
performTransactions(db, transactions, results, fail) ==
    IF transactions = << >>
    THEN [db |-> db, results |-> results, err |-> FALSE]
    ELSE LET i == Len(results) + 1
             out == performCommandsFailing(db, Head(transactions), << >>,
                                           IF fail[1] = i THEN fail[2] ELSE 0)
         IN  IF out.err
             THEN [db |-> out.db, results |-> << >>, err |-> TRUE]
             ELSE performTransactions(out.db, Tail(transactions),
                                      Append(results, out.results), fail)

\* Execute(transactions): BeginTx, performCommands, then Rollback on an
\* error, otherwise Commit, which may fail too
ExecuteTransactionsNoRollback(db, transactions, fail, commitFails) ==
    LET out == performTransactions(db, transactions, << >>, fail)
    IN  IF out.err THEN out
        ELSE IF commitFails
        THEN [db |-> db, results |-> << >>, err |-> TRUE]
        ELSE out
ExecuteTransactions(db, transactions, fail, commitFails) ==
    LET out == performTransactions(db, transactions, << >>, fail)
    IN  IF out.err \/ commitFails
        THEN [db |-> db, results |-> << >>, err |-> TRUE]
        ELSE out


----------------------------------------------------------------------------
(* The kernel side: requests, coroutines and their submissions.            *)

\* IdempotencyKey.Match: both keys present and equal
Match(i1, i2) == i1 # Null /\ i2 # Null /\ Get(i1) = Get(i2)

\* ReadPromise: p.State == promise.Pending && s.Time() >= p.Timeout
ReadExpiredStrictlyLater(p, t) == p.state = Pending /\ t > p.timeout
ReadExpired(p, t) == p.state = Pending /\ t >= p.timeout

\* RejectPromise, on a Pending promise: s.Time() >= p.Timeout
RejectExpiredStrictlyLater(p, t) == t > p.timeout
RejectExpired(p, t) == t >= p.timeout

\* RejectPromise: completedOn := s.Time()
RejectCompletedOnTimeout(p, t) == p.timeout
RejectCompletedOn(p, t) == t

\* RejectPromise on a promise that is not Pending: the response status
RejectStatusAlwaysOK(req, p) == StatusOK
RejectStatusIgnoreKey(req, p) ==
    IF ~ (req.strict /\ p.state # Rejected) THEN StatusOK ELSE StatusForbidden
RejectStatusIgnoreStrict(req, p) ==
    IF Match(p.ikc, req.ikey) THEN StatusOK ELSE StatusForbidden
RejectStatusStrictAlways(req, p) ==
    IF ~ req.strict /\ Match(p.ikc, req.ikey)
    THEN StatusOK
    ELSE StatusForbidden
RejectStatus(req, p) ==
    LET strict == req.strict /\ p.state # Rejected
    IN  IF ~strict /\ Match(p.ikc, req.ikey)
        THEN StatusOK
        ELSE StatusForbidden

\* RejectPromise after rowsAffected = 1: the status of the response
RejectUpdatedStatusUnchecked(rows) == StatusCreated
RejectUpdatedStatus(rows) == IF rows = 1 THEN StatusCreated ELSE 0

\* The promise ReadPromise synthesizes after TimeoutPromise succeeded
ReadTimedoutSnapshotNotCompleted(p) ==
    [p EXCEPT !.state = Timedout, !.value = Some(EmptyValueNilData)]
ReadTimedoutSnapshot(p) ==
    [p EXCEPT !.state = Timedout, !.value = Some(EmptyValueNilData),
              !.completedOn = Some(p.timeout)]

\* The promise RejectPromise synthesizes after TimeoutPromise succeeded
RejectTimedoutSnapshot(p) ==
    [p EXCEPT !.state = Timedout, !.value = Some(EmptyValue),
              !.completedOn = Some(p.timeout)]

\* The promise RejectPromise synthesizes after its update succeeded
RejectedSnapshot(req, p) ==
    [p EXCEPT !.state = Rejected, !.value = Some(ValueOf(req.r)),
              !.ikc = req.ikey, !.completedOn = req.completedOn]

\* The submission of ReadPromise and RejectPromise: one ReadPromise command
\* A CreatePromise command
CreateCommand(id, timeout, param, ikey, tags, createdOn) ==
    [kind |-> "CreatePromise", id |-> id, timeout |-> timeout,
     param |-> param, ikey |-> ikey, tags |-> tags, createdOn |-> createdOn]

ReadSubmissionWithCreate(req) ==
    << [kind |-> "ReadPromise", id |-> req.id],
       CreateCommand(req.id, MaxTimeout, DefaultParam, Null, DefaultTags, 0) >>
ReadSubmission(req) == << [kind |-> "ReadPromise", id |-> req.id] >>

\* RejectPromise's completion transaction
RejectSubmission(req) ==
    << [kind |-> "UpdatePromise", id |-> req.id, state |-> Rejected,
        value |-> ValueOf(req.r), ikey |-> req.ikey,
        completedOn |-> Get(req.completedOn)],
       [kind |-> "CreateNotifications", promiseId |-> req.id,
        time |-> Get(req.completedOn)],
       [kind |-> "DeleteSubscriptions", promiseId |-> req.id] >>

\* A completion transaction of another verb (ResolvePromise, CancelPromise)
CompleteSubmission(id, state, ikey, t) ==
    << [kind |-> "UpdatePromise", id |-> id, state |-> state,
        value |-> "vc", ikey |-> ikey, completedOn |-> t],
       [kind |-> "CreateNotifications", promiseId |-> id, time |-> t],
       [kind |-> "DeleteSubscriptions", promiseId |-> id] >>

\* TimeoutPromise(p, retry, res): its transaction
TimeoutSubmission(p) ==
    << [kind |-> "UpdatePromise", id |-> p.id, state |-> Timedout,
        value |-> EmptyValue, ikey |-> Null, completedOn |-> p.timeout],
       [kind |-> "CreateNotifications", promiseId |-> p.id,
        time |-> p.timeout],
       [kind |-> "DeleteSubscriptions", promiseId |-> p.id] >>

\* The sweeper's transaction for time t
SweepSubmission(t) ==
    << [kind |-> "TimeoutCreateNotifications", time |-> t],
       [kind |-> "TimeoutDeleteSubscriptions", time |-> t],
       [kind |-> "TimeoutPromises", time |-> t] >>

\* CreatePromise's transaction: the insert of the promise the request
\* describes
CreateSubmission(req) ==
    << CreateCommand(req.id, Get(req.create).timeout, ParamOf(req.r),
                     req.ikey, TagsOf(req.r), Get(req.create).createdOn) >>

\* What coroutine r has in flight
Submission(req) ==
    CASE req.pc = "read" -> ReadSubmission(req)
      [] req.pc = "create" -> CreateSubmission(req)
      [] req.pc = "update" -> RejectSubmission(req)
      [] req.pc = "timeout" -> TimeoutSubmission(Get(req.p))

\* A request before it enters the kernel
NewReq(r) ==
    [r |-> r, kind |-> "Read", id |-> "p1", ikey |-> Null, strict |-> FALSE,
     pc |-> "init", io |-> "none", p |-> Null, completedOn |-> Null,
     rows |-> 0, res |-> Null, calls |-> 0, losses |-> 0,
     expired |-> FALSE, issuedAt |-> Null, fault |-> "none",
     create |-> Null, search |-> Null, slot |-> 0, yields |-> 0,
     reads |-> 0]

\* res(response, err): the coroutine ends.  via names the call of res.
RespondAndGoOn(req, via, status, promise) ==
    [req EXCEPT !.res = Some([via |-> via, status |-> status,
                              promise |-> promise, err |-> FALSE]),
                !.calls = @ + 1]
Respond(req, via, status, promise) ==
    [req EXCEPT !.pc = "done", !.io = "none", !.p = Null, !.rows = 0,
                !.completedOn = Null,
                !.res = Some([via |-> via, status |-> status,
                              promise |-> promise, err |-> FALSE]),
                !.calls = @ + 1]

\* res(nil, err)
RespondErrorRetry(req) ==
    [req EXCEPT !.pc = "read", !.io = "wait", !.p = Null, !.rows = 0,
                !.completedOn = Null]
RespondError(req) ==
    [req EXCEPT !.pc = "done", !.io = "none", !.p = Null, !.rows = 0,
                !.completedOn = Null,
                !.res = Some([via |-> "error", status |-> 0,
                              promise |-> Null, err |-> TRUE]),
                !.calls = @ + 1]

\* c.Yield(submission, ...): the coroutine parks on a submission.  yields
\* and reads count, for the claims, the submissions of the request and those
\* of them that read the promise.
YieldUnsubmitted(req, pc) ==
    [req EXCEPT !.pc = pc, !.io = "none", !.rows = 0, !.yields = @ + 1,
                !.reads = IF pc = "read" THEN @ + 1 ELSE @]
Yield(req, pc) ==
    [req EXCEPT !.pc = pc, !.io = "wait", !.rows = 0, !.yields = @ + 1,
                !.reads = IF pc = "read" THEN @ + 1 ELSE @]

Init ==
    /\ time = 0
    /\ promises = [id \in PIds |-> Null]
    /\ subscriptions = {}
    /\ notifications = {}
    /\ timeouts = {}
    /\ deliveries = << >>
    /\ reqs = [r \in Reqs |-> NewReq(r)]
    /\ subreq = Null
    /\ winner = [id \in PIds |-> Null]

\* A committed transaction replaces the tables; winner records whose
\* transaction took a promise out of Pending
Commit(out, actor) ==
    /\ promises' = out.db.p
    /\ subscriptions' = out.db.s
    /\ notifications' = out.db.n
    /\ timeouts' = out.db.t
    /\ winner' = [id \in PIds |->
                    IF /\ Exists(promises, id)
                       /\ Row(promises, id).state = Pending
                       /\ Row(out.db.p, id).state # Pending
                    THEN Some(actor)
                    ELSE winner[id]]

\* The kernel clock advances with a tick
Tick ==
    /\ time < MaxTime
    /\ time' = time + 1
    /\ UNCHANGED <<promises, subscriptions, notifications, timeouts, reqs,
                   subreq, winner, deliveries>>

\* A ReadPromise or RejectPromise request enters the kernel: its coroutine
\* runs to its first Yield.  Requests are numbered in the order they enter.
Start(r, kind, id, ikey, strict) ==
    /\ reqs[r].pc = "init"
    /\ \A q \in Reqs : q < r => reqs[q].pc # "init"
    /\ reqs' = [reqs EXCEPT ![r] =
                   Yield([@ EXCEPT !.kind = kind, !.id = id, !.ikey = ikey,
                                   !.strict = strict], "read")]
    /\ UNCHANGED <<time, promises, subscriptions, notifications, timeouts,
                   subreq, winner, deliveries>>

\* The store worker executes the submission of coroutine r and commits
StoreExecute(r) ==
    /\ reqs[r].io = "wait"
    /\ LET req == reqs[r]
           out == Execute(DB, Submission(req))
       IN  /\ Commit(out, [by |-> req.pc, r |-> r])
           /\ reqs' = [reqs EXCEPT ![r] =
                          IF req.pc = "read"
                          THEN [@ EXCEPT !.io = "ok",
                                         !.p = out.results[1].record]
                          ELSE [@ EXCEPT !.io = "ok",
                                         !.rows = out.results[1].rows]]
    /\ UNCHANGED <<time, subreq, deliveries>>

\* The store worker fails the submission of coroutine r: rollback
StoreFail(r) ==
    /\ reqs[r].io = "wait"
    /\ reqs' = [reqs EXCEPT ![r].io = "err"]
    /\ UNCHANGED <<time, promises, subscriptions, notifications, timeouts,
                   subreq, winner, deliveries>>

\* ReadPromise: the callback of the read
ReadPromiseOnRead(r) ==
    LET req == reqs[r] IN
    /\ req.kind = "Read" /\ req.pc = "read" /\ req.io \in {"ok", "err"}
    /\ reqs' = [reqs EXCEPT ![r] =
          IF req.io = "err" THEN RespondError(req)
          ELSE IF req.p = Null
               THEN Respond(req, "notfound", StatusNotFound, Null)
          ELSE IF ReadExpired(Get(req.p), time)
               THEN [Yield(req, "timeout") EXCEPT !.expired = TRUE]
               ELSE Respond(req, "read", StatusOK, req.p)]
    /\ UNCHANGED <<time, promises, subscriptions, notifications, timeouts,
                   subreq, winner, deliveries>>

\* RejectPromise: the callback of the read
RejectPromiseOnRead(r) ==
    LET req == reqs[r] IN
    /\ req.kind = "Reject" /\ req.pc = "read" /\ req.io \in {"ok", "err"}
    /\ reqs' = [reqs EXCEPT ![r] =
          IF req.io = "err" THEN RespondError(req)
          ELSE IF req.p = Null
               THEN Respond(req, "notfound", StatusNotFound, Null)
          ELSE IF Get(req.p).state = Pending
               THEN IF RejectExpired(Get(req.p), time)
                    THEN [Yield(req, "timeout") EXCEPT !.expired = TRUE]
                    ELSE [Yield(req, "update") EXCEPT
                             !.completedOn =
                                 Some(RejectCompletedOn(Get(req.p), time)),
                             !.issuedAt = Some(time)]
               ELSE Respond(req, "terminal", RejectStatus(req, Get(req.p)),
                            req.p)]
    /\ UNCHANGED <<time, promises, subscriptions, notifications, timeouts,
                   subreq, winner, deliveries>>

\* RejectPromise: the callback of the completion transaction
RejectPromiseOnUpdate(r) ==
    LET req == reqs[r] IN
    /\ req.pc = "update" /\ req.io \in {"ok", "err"}
    /\ reqs' = [reqs EXCEPT ![r] =
          IF req.io = "err" THEN RespondError(req)
          ELSE IF RejectUpdatedStatus(req.rows) = StatusCreated
               THEN Respond(req, "created", StatusCreated,
                            Some(RejectedSnapshot(req, Get(req.p))))
               ELSE [Yield(req, "read") EXCEPT
                        !.p = Null, !.completedOn = Null, !.losses = @ + 1]]
    /\ UNCHANGED <<time, promises, subscriptions, notifications, timeouts,
                   subreq, winner, deliveries>>

\* TimeoutPromise: the callback of its transaction; on success the callback
\* the spawning coroutine gave it, otherwise the spawning coroutine again
TimeoutPromiseOnUpdate(r) ==
    LET req == reqs[r] IN
    /\ req.pc = "timeout" /\ req.io \in {"ok", "err"}
    /\ reqs' = [reqs EXCEPT ![r] =
          IF req.io = "err" THEN RespondError(req)
          ELSE IF req.rows = 1
               THEN IF req.kind = "Read"
                    THEN Respond(req, "timedout", StatusOK,
                                 Some(ReadTimedoutSnapshot(Get(req.p))))
                    ELSE Respond(req, "timedout", StatusForbidden,
                                 Some(RejectTimedoutSnapshot(Get(req.p))))
               ELSE [Yield(req, "read") EXCEPT !.p = Null, !.losses = @ + 1]]
    /\ UNCHANGED <<time, promises, subscriptions, notifications, timeouts,
                   subreq, winner, deliveries>>

\* A CreatePromise command
CreatePromise(id, timeout) ==
    /\ ~ Exists(promises, id)
    /\ Commit(Execute(DB, << CreateCommand(id, timeout, DefaultParam, Null,
                                            DefaultTags, time) >>),
              [by |-> "create", r |-> 0])
    /\ UNCHANGED <<time, reqs, subreq, deliveries>>

\* A promise is created together with its timeout record, the trigger of
\* its sweep at its timeout
CreatePromiseScheduled(id, timeout) ==
    /\ ~ Exists(promises, id)
    /\ Commit(Execute(DB, << CreateCommand(id, timeout, DefaultParam, Null,
                                            DefaultTags, time),
                              [kind |-> "CreateTimeout", id |-> id,
                               time |-> timeout] >>),
              [by |-> "create", r |-> 0])
    /\ UNCHANGED <<time, reqs, subreq, deliveries>>

\* A CreatePromise request enters the kernel: its coroutine yields the
\* insert, with createdOn the Time() of this tick
StartCreate(r, id, timeout, ikey) ==
    /\ reqs[r].pc = "init"
    /\ \A q \in Reqs : q < r => reqs[q].pc # "init"
    /\ reqs' = [reqs EXCEPT ![r] =
                   Yield([@ EXCEPT !.kind = "Create", !.id = id,
                                   !.ikey = ikey,
                                   !.create = Some([timeout |-> timeout,
                                                    createdOn |-> time])],
                         "create")]
    /\ UNCHANGED <<time, promises, subscriptions, notifications, timeouts,
                   subreq, winner, deliveries>>

\* CreatePromise: the callback of the insert.  With a row inserted it
\* responds 201 with the promise it described; with none it re-reads.
CreatePromiseOnCreate(r) ==
    LET req == reqs[r] IN
    /\ req.pc = "create" /\ req.io \in {"ok", "err"}
    /\ reqs' = [reqs EXCEPT ![r] =
          IF req.io = "err" THEN RespondError(req)
          ELSE IF req.rows = 1
               THEN Respond(req, "created", StatusCreated,
                            Some(InsertedPromise(CreateSubmission(req)[1])))
               ELSE [Yield(req, "read") EXCEPT !.losses = @ + 1]]
    /\ UNCHANGED <<time, promises, subscriptions, notifications, timeouts,
                   subreq, winner, deliveries>>

\* CreatePromise: the callback of the re-read.  The response carries the
\* stored promise; its status is the outcome of the idempotency and strict
\* rules for create, one of OK and Conflict.
CreatePromiseOnRead(r, status) ==
    LET req == reqs[r] IN
    /\ req.kind = "Create" /\ req.pc = "read" /\ req.io \in {"ok", "err"}
    /\ status \in {StatusOK, StatusConflict}
    /\ reqs' = [reqs EXCEPT ![r] =
          IF req.io = "err" THEN RespondError(req)
          ELSE Respond(req, "exists", status, req.p)]
    /\ UNCHANGED <<time, promises, subscriptions, notifications, timeouts,
                   subreq, winner, deliveries>>

\* Another completion verb (resolve, cancel) completes a Pending promise
\* before its timeout
ClientComplete(id, state, ikey) ==
    /\ Exists(promises, id)
    /\ Row(promises, id).state = Pending
    /\ time < Row(promises, id).timeout
    /\ Commit(Execute(DB, CompleteSubmission(id, state, ikey, time)),
              [by |-> "client", r |-> 0])
    /\ UNCHANGED <<time, reqs, subreq, deliveries>>

\* A CreateSubscription request finds its promise Pending
SubscribeRead(sid, id) ==
    /\ subreq = Null
    /\ Exists(promises, id)
    /\ Row(promises, id).state = Pending
    /\ time < Row(promises, id).timeout
    /\ subreq' = Some([id |-> sid, promiseId |-> id])
    /\ UNCHANGED <<time, promises, subscriptions, notifications, timeouts,
                   reqs, winner, deliveries>>

\* and then its CreateSubscription command executes
SubscribeInsert(url) ==
    /\ subreq # Null
    /\ Commit(Execute(DB, << [kind |-> "CreateSubscription",
                              id |-> Get(subreq).id,
                              promiseId |-> Get(subreq).promiseId,
                              url |-> url,
                              retryPolicy |-> DefaultRetryPolicy] >>),
              [by |-> "subscribe", r |-> 0])
    /\ subreq' = Null
    /\ UNCHANGED <<time, reqs, deliveries>>

\* The sweeper's transaction, issued at a kernel time t and executed now
Sweep(t) ==
    /\ Commit(Execute(DB, SweepSubmission(t)), [by |-> "sweeper", r |-> 0])
    /\ UNCHANGED <<time, reqs, subreq, deliveries>>

\* A client begins a search: q, the states and the limit of every page, and
\* the cursor of the first one
StartSearch(r, q, states, limit, cursor) ==
    /\ reqs[r].pc = "init"
    /\ \A o \in Reqs : o < r => reqs[o].pc # "init"
    /\ reqs' = [reqs EXCEPT ![r] =
                   [@ EXCEPT !.kind = "Search", !.pc = "search",
                             !.search = Some([q |-> q, states |-> states,
                                              limit |-> limit,
                                              from |-> cursor,
                                              cursor |-> cursor,
                                              page |-> Null,
                                              pages |-> << >>,
                                              matched |-> {}])]]
    /\ UNCHANGED <<time, promises, subscriptions, notifications, timeouts,
                   subreq, winner, deliveries>>

\* The SearchPromises command of the next page of search s
SearchCommand(s) ==
    [kind |-> "SearchPromises", q |-> s.q, states |-> s.states,
     limit |-> s.limit, sortId |-> s.cursor]

\* The ids of the rows the WHERE clause of a SearchPromises command selects
Selected(P, cmd) ==
    {id \in PIds : Exists(P, id) /\ SearchWhere(Row(P, id), cmd)}

\* The store executes the next page of a search.  The client keeps the
\* page; a page of limit rows comes with a next cursor, its LastSortId, and
\* a page of fewer rows ends the search.  matched records, for the claims,
\* the ids the search selected when its first page was executed.
SearchPage(r) ==
    /\ reqs[r].pc = "search"
    /\ LET s == Get(reqs[r].search)
           out == Execute(DB, << SearchCommand(s) >>)
           page == out.results[1]
       IN  /\ Commit(out, [by |-> "search", r |-> r])
           /\ reqs' = [reqs EXCEPT ![r] =
                 [@ EXCEPT !.pc = IF page.rows < s.limit
                                  THEN "done" ELSE "search",
                           !.search = Some(
                               [s EXCEPT !.cursor = Some(page.lastSortId),
                                         !.page = Some([cmd |-> SearchCommand(s),
                                                        rows |-> page.rows,
                                                        lastSortId |->
                                                            page.lastSortId,
                                                        records |->
                                                            page.records]),
                                         !.pages = Append(@, page.records),
                                         !.matched =
                                            IF s.pages = << >>
                                            THEN Selected(promises,
                                                          SearchCommand(s))
                                            ELSE @])]]
    /\ UNCHANGED <<time, subreq, deliveries>>

\* A sender coroutine reads a notification that is due and dispatches its
\* HTTP call
SenderRead(n) ==
    /\ n \in notifications
    /\ n.time <= time
    /\ Len(deliveries) < MaxInFlight
    /\ deliveries' = Append(deliveries, n)
    /\ UNCHANGED <<time, promises, subscriptions, notifications, timeouts,
                   reqs, subreq, winner>>

Without(seq, i) == SubSeq(seq, 1, i - 1) \o SubSeq(seq, i + 1, Len(seq))

\* The call of delivery i succeeded: the sender deletes the notification
SenderSucceeded(i) ==
    /\ i \in DOMAIN deliveries
    /\ Commit(Execute(DB, << [kind |-> "DeleteNotification",
                              id |-> deliveries[i].id,
                              promiseId |-> deliveries[i].promiseId] >>),
              [by |-> "sender", r |-> 0])
    /\ deliveries' = Without(deliveries, i)
    /\ UNCHANGED <<time, reqs, subreq>>

\* The call of delivery i failed: the sender increments the attempt it read
\* and advances time by the retry schedule, or, the retry policy exhausted,
\* deletes the notification
SenderFailed(i) ==
    /\ i \in DOMAIN deliveries
    /\ Commit(Execute(DB, << IF deliveries[i].attempt < MaxAttempt
                             THEN [kind |-> "UpdateNotification",
                                   id |-> deliveries[i].id,
                                   promiseId |-> deliveries[i].promiseId,
                                   time |-> time + 1,
                                   attempt |-> deliveries[i].attempt + 1]
                             ELSE [kind |-> "DeleteNotification",
                                   id |-> deliveries[i].id,
                                   promiseId |-> deliveries[i].promiseId] >>),
              [by |-> "sender", r |-> 0])
    /\ deliveries' = Without(deliveries, i)
    /\ UNCHANGED <<time, reqs, subreq>>

AnyKey == {Null} \cup {Some(k) : k \in Keys}

\* What the kernel, the store and the sweeper do in every specification
Run ==
    \/ Tick
    \/ \E r \in Reqs, id \in Served : Start(r, "Read", id, Null, FALSE)
    \/ \E r \in Reqs : StoreExecute(r)
    \/ \E r \in Reqs : StoreFail(r)
    \/ \E r \in Reqs : ReadPromiseOnRead(r)
    \/ \E r \in Reqs : RejectPromiseOnRead(r)
    \/ \E r \in Reqs : RejectPromiseOnUpdate(r)
    \/ \E r \in Reqs : TimeoutPromiseOnUpdate(r)
    \/ \E id \in Served, timeout \in Timeouts : CreatePromise(id, timeout)
    \/ \E t \in 0 .. time : Sweep(t)

\* Requests with every idempotency key and strictness, racing with each
\* other, the other completion verbs and the sweeper
Next ==
    \/ Run
    \/ \E r \in Reqs, id \in Served, ikey \in AnyKey, strict \in BOOLEAN :
          Start(r, "Reject", id, ikey, strict)
    \/ \E id \in Served, state \in {Resolved, Canceled},
          ikey \in {Null, Some("k1")} : ClientComplete(id, state, ikey)

Spec == Init /\ [][Next]_vars

\* Requests racing with subscriptions being created
NextSub ==
    \/ Run
    \/ \E r \in Reqs, id \in Served : Start(r, "Reject", id, Null, FALSE)
    \/ \E sid \in SIds, id \in Served : SubscribeRead(sid, id)
    \/ \E url \in Urls : SubscribeInsert(url)

SpecSub == Init /\ [][NextSub]_vars

\* The batches a store worker may be handed: the coroutines parked on a
\* submission, one or two of them, in either order
Batches ==
    LET waiting == {r \in Reqs : reqs[r].io = "wait"}
    IN  {<<r>> : r \in waiting} \cup
        {b \in waiting \X waiting : b[1] # b[2]}

Members(batch) == {batch[i] : i \in DOMAIN batch}

TransactionsOf(batch) ==
    [i \in DOMAIN batch |-> Submission(reqs[batch[i]])]

\* The commands of a batch, by transaction and position, and no command
FailPoints(batch) ==
    {<<0, 0>>} \cup
    {f \in (DOMAIN batch) \X (1 .. 3) :
        f[2] <= Len(TransactionsOf(batch)[f[1]])}

\* The store worker executes a batch of submissions in one call of Execute.
\* On an error every coroutine of the batch gets it; fault records, for the
\* claims, why: its own command failed, the commit failed, or the command of
\* another transaction of the batch failed; slot records the position its
\* transaction had in the batch.
StoreProcess(batch, fail, commitFails) ==
    /\ batch \in Batches
    /\ fail \in FailPoints(batch)
    /\ commitFails => fail = <<0, 0>>
    /\ LET out == ExecuteTransactions(DB, TransactionsOf(batch), fail,
                                      commitFails)
           Index(r) == CHOOSE i \in DOMAIN batch : batch[i] = r
       IN  /\ promises' = out.db.p
           /\ subscriptions' = out.db.s
           /\ notifications' = out.db.n
           /\ timeouts' = out.db.t
           /\ winner' = [id \in PIds |->
                 IF /\ Exists(promises, id)
                    /\ Row(promises, id).state = Pending
                    /\ Row(out.db.p, id).state # Pending
                    /\ ~ out.err
                 THEN LET r == CHOOSE r \in Members(batch) :
                                  /\ reqs[r].id = id
                                  /\ reqs[r].pc # "read"
                                  /\ out.results[Index(r)][1].rows = 1
                      IN  Some([by |-> reqs[r].pc, r |-> r])
                 ELSE winner[id]]
           /\ reqs' = [r \in Reqs |->
                 IF r \notin Members(batch) THEN reqs[r]
                 ELSE IF out.err
                 THEN [reqs[r] EXCEPT
                          !.io = "err",
                          !.slot = Index(r),
                          !.fault = IF commitFails THEN "commit"
                                    ELSE IF fail[1] = Index(r) THEN "command"
                                    ELSE "batch"]
                 ELSE IF reqs[r].pc = "read"
                 THEN [reqs[r] EXCEPT
                          !.io = "ok",
                          !.slot = Index(r),
                          !.p = out.results[Index(r)][1].record]
                 ELSE [reqs[r] EXCEPT
                          !.io = "ok",
                          !.slot = Index(r),
                          !.rows = out.results[Index(r)][1].rows]]
    /\ UNCHANGED <<time, subreq, deliveries>>

\* Requests racing with each other and the sweeper while the store executes
\* their submissions in batches, any command or commit of which may fail
NextBatch ==
    \/ Tick
    \/ \E r \in Reqs, id \in Served : Start(r, "Read", id, Null, FALSE)
    \/ \E r \in Reqs, id \in Served : Start(r, "Reject", id, Null, FALSE)
    \/ \E r \in Reqs : ReadPromiseOnRead(r)
    \/ \E r \in Reqs : RejectPromiseOnRead(r)
    \/ \E r \in Reqs : RejectPromiseOnUpdate(r)
    \/ \E r \in Reqs : TimeoutPromiseOnUpdate(r)
    \/ \E id \in Served, timeout \in Timeouts : CreatePromise(id, timeout)
    \/ \E t \in 0 .. time : Sweep(t)
    \/ \E batch \in Batches : \E fail \in FailPoints(batch) :
          \E commitFails \in BOOLEAN : StoreProcess(batch, fail, commitFails)

SpecBatch == Init /\ [][NextBatch]_vars

\* CreatePromise requests racing on one id, with different timeouts, params
\* and tags, while another verb and the sweeper complete the promise
NextCreate ==
    \/ Tick
    \/ \E r \in Reqs, id \in Served, timeout \in 1 .. MaxTime,
          ikey \in {Null, Some("k1")} : StartCreate(r, id, timeout, ikey)
    \/ \E r \in Reqs : StoreExecute(r)
    \/ \E r \in Reqs : StoreFail(r)
    \/ \E r \in Reqs : CreatePromiseOnCreate(r)
    \/ \E r \in Reqs, status \in {StatusOK, StatusConflict} :
          CreatePromiseOnRead(r, status)
    \/ \E id \in Served : ClientComplete(id, Resolved, Some("k2"))
    \/ \E t \in 0 .. time : Sweep(t)

SpecCreate == Init /\ [][NextCreate]_vars

\* The sweeper at work on two promises with different timeouts and their
\* subscriptions, while another verb completes promises
NextSweep ==
    \/ Tick
    \/ \E id \in Swept, timeout \in 1 .. MaxTime : CreatePromise(id, timeout)
    \/ \E id \in Swept : ClientComplete(id, Resolved, Null)
    \/ \E sid \in SIds, id \in Swept : SubscribeRead(sid, id)
    \/ SubscribeInsert("u1")
    \/ \E t \in 0 .. time : Sweep(t)

SpecSweep == Init /\ [][NextSweep]_vars

\* Requests and the sweeper at work on a promise that has a timeout record
NextTimeouts ==
    \/ Tick
    \/ \E r \in Reqs, id \in Served : Start(r, "Read", id, Null, FALSE)
    \/ \E r \in Reqs, id \in Served : Start(r, "Reject", id, Null, FALSE)
    \/ \E r \in Reqs : StoreExecute(r)
    \/ \E r \in Reqs : StoreFail(r)
    \/ \E r \in Reqs : ReadPromiseOnRead(r)
    \/ \E r \in Reqs : RejectPromiseOnRead(r)
    \/ \E r \in Reqs : RejectPromiseOnUpdate(r)
    \/ \E r \in Reqs : TimeoutPromiseOnUpdate(r)
    \/ \E id \in Served, timeout \in 1 .. MaxTime :
          CreatePromiseScheduled(id, timeout)
    \/ \E t \in 0 .. time : Sweep(t)

SpecTimeouts == Init /\ [][NextTimeouts]_vars

\* The notification sender at work on the notifications that a completion,
\* the sweeper and a RejectPromise create for a promise and its subscription
NextNotify ==
    \/ Tick
    \/ \E id \in Served, timeout \in Timeouts : CreatePromise(id, timeout)
    \/ \E id \in Served : SubscribeRead("s1", id)
    \/ SubscribeInsert("u1")
    \/ \E id \in Served : ClientComplete(id, Resolved, Null)
    \/ \E t \in 0 .. time : Sweep(t)
    \/ \E id \in Served : Start(1, "Reject", id, Null, FALSE)
    \/ StoreExecute(1)
    \/ RejectPromiseOnRead(1)
    \/ RejectPromiseOnUpdate(1)
    \/ TimeoutPromiseOnUpdate(1)
    \/ \E n \in notifications : SenderRead(n)
    \/ \E i \in 1 .. MaxInFlight : SenderSucceeded(i)
    \/ \E i \in 1 .. MaxInFlight : SenderFailed(i)

SpecNotify == Init /\ [][NextNotify]_vars

\* The queries, state lists and first cursors of the searches
Queries == { << "*" >>, << "a", "*" >>, << "a", "_" >>, << "a", "b" >> }
StateLists ==
    { << Pending >>, << Rejected, Canceled >>,
      << Pending, Resolved, Pending >> }
Cursors == {Null, Some(2)}

\* A client pages through a search while promises are created and completed
NextSearch ==
    \/ \E id \in PIds : CreatePromise(id, MaxTimeout)
    \/ \E id \in PIds, state \in {Resolved, Rejected, Canceled} :
          ClientComplete(id, state, Null)
    \/ \E q \in Queries, states \in StateLists, limit \in 1 .. MaxLimit,
          cursor \in Cursors : StartSearch(1, q, states, limit, cursor)
    \/ SearchPage(1)

SpecSearch == Init /\ [][NextSearch]_vars

\* Requests racing with each other and the sweeper, under the scheduling the
\* kernel and the store give: the store completes, with a result or with an
\* error, every submission it was given, and the scheduler runs the callback
\* of every completion.
NextLive ==
    \/ Run
    \/ \E r \in Reqs, id \in Served : Start(r, "Reject", id, Null, FALSE)

Completes(r) == StoreExecute(r) \/ StoreFail(r)

Resumes(r) ==
    \/ ReadPromiseOnRead(r)
    \/ RejectPromiseOnRead(r)
    \/ RejectPromiseOnUpdate(r)
    \/ TimeoutPromiseOnUpdate(r)

Fairness ==
    \A r \in Reqs : WF_vars(Completes(r)) /\ WF_vars(Resumes(r))

SpecLive == Init /\ [][NextLive]_vars /\ Fairness

----------------------------------------------------------------------------
(* The claims *)

Done(r) == reqs[r].pc = "done"
Res(r) == Get(reqs[r].res)
Answered(r) == Done(r) /\ ~ Res(r).err
Won(r, by) == winner[reqs[r].id] = Some([by |-> by, r |-> r])

\* C1: once a promise's stored state is not Pending, no step of any
\* interleaving changes its record (state, value, idempotencyKeyForComplete,
\* completedOn) again.
C1_TerminalNeverChanges ==
    [][\A id \in PIds :
          (Exists(promises, id) /\ Row(promises, id).state # Pending)
              => promises'[id] = promises[id]]_vars

\* A completion transaction of a RejectPromise executed on a promise that
\* was no longer Pending.
C1_Witness ==
    \E r \in Reqs :
        /\ reqs[r].pc = "update" /\ reqs[r].io = "ok" /\ reqs[r].rows = 0
        /\ Row(promises, reqs[r].id).state \in Terminal

\* C2: a RejectPromise responds 201 exactly when its own UpdatePromise took
\* the promise from Pending to Rejected, and so at most one request on a
\* promise id ever responds 201.
C2_CreatedIffOwnUpdateWon ==
    /\ \A r \in Reqs :
          (Done(r) /\ reqs[r].kind = "Reject")
              => ((~ Res(r).err /\ Res(r).status = StatusCreated)
                      <=> (/\ Won(r, "update")
                           /\ Row(promises, reqs[r].id).state = Rejected))
    /\ \A r1, r2 \in Reqs :
          (/\ Answered(r1) /\ Answered(r2)
           /\ reqs[r1].id = reqs[r2].id
           /\ Res(r1).status = StatusCreated
           /\ Res(r2).status = StatusCreated) => r1 = r2

\* Two RejectPromise requests on one promise both issued their update; one
\* responded 201 and the other, having lost, something else.
C2_Witness ==
    \E r1, r2 \in Reqs :
        /\ r1 # r2 /\ reqs[r1].id = reqs[r2].id
        /\ Answered(r1) /\ Res(r1).status = StatusCreated
        /\ Answered(r2) /\ Res(r2).status # StatusCreated
        /\ reqs[r2].issuedAt # Null /\ reqs[r2].losses = 1

\* Two RejectPromise requests raced on a Pending promise before its
\* timeout: both issued their completion transaction, w's won and l has
\* answered.
Raced(w, l) ==
    /\ w # l
    /\ reqs[w].kind = "Reject" /\ reqs[l].kind = "Reject"
    /\ reqs[w].id = reqs[l].id
    /\ reqs[w].issuedAt # Null /\ reqs[l].issuedAt # Null
    /\ Won(w, "update")
    /\ Answered(l)

\* C3 as stated: the loser of the race responds 200 with the stored promise
\* carrying the winner's value.
C3_LoserRespondsOK ==
    \A w, l \in Reqs :
        Raced(w, l) =>
            /\ Res(l).status = StatusOK
            /\ Res(l).promise = Scanned(promises, reqs[l].id)
            /\ Get(Res(l).promise).value = Some(ValueOf(w))

\* C3 as amended: the winner responds 201; the loser lost once, re-read and
\* responds with the stored promise carrying the winner's value, with 200
\* if its idempotency key is present and equal to the winner's and with 403
\* otherwise.
C3_LoserRespondsByKey ==
    \A w, l \in Reqs :
        Raced(w, l) =>
            /\ Answered(w) => Res(w).status = StatusCreated
            /\ reqs[l].losses = 1
            /\ Res(l).via = "terminal"
            /\ Res(l).status =
                  IF /\ reqs[l].ikey # Null /\ reqs[w].ikey # Null
                     /\ reqs[l].ikey = reqs[w].ikey
                  THEN StatusOK
                  ELSE StatusForbidden
            /\ Res(l).promise = Scanned(promises, reqs[l].id)
            /\ Get(Res(l).promise).state = Rejected
            /\ Get(Res(l).promise).value = Some(ValueOf(w))

\* The race happened with equal keys, and the loser got 200.
C3_Witness ==
    \E w, l \in Reqs :
        /\ Raced(w, l) /\ Answered(w)
        /\ Res(l).status = StatusOK
        /\ reqs[l].strict

\* The step takes promise id from Pending to Rejected: the completion
\* transaction of a RejectPromise commits.
RejectCommits(id) ==
    /\ Exists(promises, id)
    /\ Row(promises, id).state = Pending
    /\ Row(promises', id).state = Rejected

\* C4: in the step in which a RejectPromise transaction takes promise p out
\* of Pending, every subscription of p is deleted and each of them gets
\* exactly one notification, with its url and retryPolicy, time equal to the
\* promise's completedOn and attempt 0.  A transaction that fails changes
\* no table.
C4_CompletionCascade ==
    [][/\ \A id \in PIds :
             RejectCommits(id) =>
                 /\ ~ \E s \in subscriptions' : s.promiseId = id
                 /\ \A s \in subscriptions :
                       s.promiseId = id =>
                           /\ Cardinality({n \in notifications' :
                                  n.id = s.id /\ n.promiseId = id}) = 1
                           /\ \A n \in notifications' :
                                  (n.id = s.id /\ n.promiseId = id) =>
                                      /\ n.url = s.url
                                      /\ n.retryPolicy = s.retryPolicy
                                      /\ n.attempt = 0
                                      /\ Some(n.time) =
                                            Row(promises', id).completedOn
       /\ \A r \in Reqs :
             (reqs[r].io = "wait" /\ reqs'[r].io = "err") =>
                 /\ promises' = promises
                 /\ subscriptions' = subscriptions
                 /\ notifications' = notifications]_vars

\* A promise with two subscriptions was rejected: both are now notifications.
C4_Witness ==
    \E id \in PIds :
        /\ Exists(promises, id) /\ Row(promises, id).state = Rejected
        /\ \A sid \in SIds : \E n \in notifications :
              /\ n.id = sid /\ n.promiseId = id
              /\ Some(n.time) = Row(promises, id).completedOn
        /\ \E n1, n2 \in notifications : n1.url # n2.url

\* C5: every row of the subscriptions table references a promise that
\* exists and is Pending.
C5_SubscriptionsOnlyOnPending ==
    \A s \in subscriptions :
        /\ Exists(promises, s.promiseId)
        /\ Row(promises, s.promiseId).state = Pending

\* C6: no ReadPromise responds with a promise in state Pending whose timeout
\* is at or before the Time() of the step in which it responds.
C6_NoExpiredPendingRead ==
    [][\A r \in Reqs :
          (/\ reqs[r].pc # "done" /\ reqs'[r].pc = "done"
           /\ reqs'[r].kind = "Read"
           /\ Get(reqs'[r].res).promise # Null
           /\ Get(Get(reqs'[r].res).promise).state = Pending)
              => Get(Get(reqs'[r].res).promise).timeout > time']_vars

\* A ReadPromise read the promise Pending at its timeout and reported it
\* Timedout.
C6_Witness ==
    \E r \in Reqs :
        /\ Answered(r) /\ reqs[r].kind = "Read" /\ reqs[r].expired
        /\ Get(Res(r).promise).state = Timedout
        /\ Get(Res(r).promise).timeout = time

\* A ReadPromise that read its promise Pending with Time() >= timeout and
\* has answered.
LazyRead(r) ==
    reqs[r].kind = "Read" /\ reqs[r].expired /\ Answered(r)

\* C7 as stated: when ReadPromise read a Pending promise with Time() >=
\* timeout, the stored promise has left Pending before the response, and the
\* response is 200 with a snapshot in state Timedout whose completedOn is
\* the promise's timeout.
C7_LazyReadRespondsTimedout ==
    \A r \in Reqs :
        LazyRead(r) =>
            /\ Row(promises, reqs[r].id).state # Pending
            /\ Res(r).status = StatusOK
            /\ Get(Res(r).promise).state = Timedout
            /\ Get(Res(r).promise).completedOn =
                  Some(Get(Res(r).promise).timeout)

\* C7 as amended: the stored promise has left Pending before the response
\* and the response is 200; its promise is the Timedout snapshot, with
\* completedOn the timeout, when the spawned TimeoutPromise made the
\* transition, and otherwise the stored promise, in the terminal state the
\* competing transaction gave it.  The TimeoutPromise that makes the
\* transition deletes the promise's subscriptions and leaves a notification
\* for each, with time the timeout and attempt 0.
C7_LazyReadRespondsTerminal ==
    /\ [](\A r \in Reqs :
            LazyRead(r) =>
                /\ Row(promises, reqs[r].id).state # Pending
                /\ Res(r).status = StatusOK
                /\ IF Won(r, "timeout")
                   THEN /\ Res(r).via = "timedout"
                        /\ Get(Res(r).promise).state = Timedout
                        /\ Get(Res(r).promise).completedOn =
                              Some(Get(Res(r).promise).timeout)
                        /\ Row(promises, reqs[r].id).state = Timedout
                        /\ Row(promises, reqs[r].id).completedOn =
                              Get(Res(r).promise).completedOn
                   ELSE /\ Res(r).via = "read"
                        /\ Res(r).promise = Scanned(promises, reqs[r].id)
                        /\ reqs[r].losses = 1)
    /\ [][\A r \in Reqs :
             (winner[reqs[r].id] = Null /\ Won(r, "timeout")') =>
                 /\ ~ \E s \in subscriptions' : s.promiseId = reqs[r].id
                 /\ \A s \in subscriptions :
                       s.promiseId = reqs[r].id =>
                           \E n \in notifications' :
                               /\ n.id = s.id /\ n.promiseId = s.promiseId
                               /\ n.url = s.url /\ n.attempt = 0
                               /\ n.time = Row(promises', reqs[r].id).timeout
      ]_vars

\* A ReadPromise whose TimeoutPromise made the transition, for a promise
\* that had a subscription, has answered.
C7_Witness ==
    \E r \in Reqs :
        /\ LazyRead(r) /\ Won(r, "timeout")
        /\ \E n \in notifications : n.promiseId = reqs[r].id

\* C8 as stated: completedOn is set exactly in the terminal states; the
\* completedOn of a promise that a RejectPromise completes is the kernel
\* clock when its transaction commits; the completedOn of a Timedout promise
\* is its timeout.
C8_CompletedOnIsCommitClock ==
    [][\A id \in PIds :
          Exists(promises', id) =>
              LET row == Row(promises', id) IN
              /\ row.completedOn # Null <=> row.state \in Terminal
              /\ RejectCommits(id) => row.completedOn = Some(time')
              /\ row.state = Timedout => row.completedOn = Some(row.timeout)
      ]_vars

\* C8 as amended: completedOn is set exactly in the terminal states; the
\* completedOn of a Rejected promise is the Time() of the tick in which the
\* winning RejectPromise issued its transaction, which is at or before the
\* clock when it commits; the completedOn of a Timedout promise is its
\* timeout.
C8_CompletedOnIsIssueClock ==
    \A id \in PIds :
        Exists(promises, id) =>
            LET row == Row(promises, id) IN
            /\ row.completedOn # Null <=> row.state \in Terminal
            /\ row.state = Rejected =>
                   \E r \in Reqs :
                       /\ reqs[r].id = id /\ Won(r, "update")
                       /\ row.completedOn = reqs[r].issuedAt
                       /\ Get(row.completedOn) <= time
            /\ row.state = Timedout => row.completedOn = Some(row.timeout)

\* A promise was rejected by a transaction that committed after the clock
\* had moved on, and another timed out.
C8_Witness ==
    \E id \in PIds :
        /\ Exists(promises, id) /\ Row(promises, id).state = Rejected
        /\ Get(Row(promises, id).completedOn) < time
        /\ \E r \in Reqs : Won(r, "update") /\ reqs[r].pc = "update"

\* A RejectPromise that answered from the branch for a promise it read
\* already terminal.
FromTerminal(r) ==
    reqs[r].kind = "Reject" /\ Answered(r) /\ Res(r).via = "terminal"

\* C9: without strict, a RejectPromise on an already-terminal promise
\* responds with the stored promise, unchanged: with 200 if its key is
\* present and equals the stored idempotencyKeyForComplete, with 403 if it
\* is absent or differs.
C9_NonStrictByKey ==
    \A r \in Reqs :
        (FromTerminal(r) /\ ~ reqs[r].strict) =>
            LET row == Row(promises, reqs[r].id) IN
            /\ row.state \in Terminal
            /\ Res(r).promise = Scanned(promises, reqs[r].id)
            /\ (reqs[r].ikey # Null /\ reqs[r].ikey = row.ikc)
                   => Res(r).status = StatusOK
            /\ (reqs[r].ikey = Null \/ reqs[r].ikey # row.ikc)
                   => Res(r).status = StatusForbidden

\* Without strict, a RejectPromise with the stored key got 200 on a Resolved
\* promise.
C9_Witness ==
    \E r \in Reqs :
        /\ FromTerminal(r) /\ ~ reqs[r].strict
        /\ Res(r).status = StatusOK
        /\ Get(Res(r).promise).state = Resolved

\* C10: with strict, a RejectPromise never responds 200 on a promise that is
\* Resolved, Canceled or Timedout, whatever the keys: it responds 403; it
\* responds 200 only when the stored state is Rejected.
C10_StrictNeedsRejected ==
    \A r \in Reqs :
        (reqs[r].kind = "Reject" /\ reqs[r].strict /\ Answered(r)) =>
            LET row == Row(promises, reqs[r].id) IN
            /\ Res(r).status = StatusOK =>
                   /\ row.state = Rejected
                   /\ Get(Res(r).promise).state = Rejected
            /\ (Res(r).promise # Null
                    /\ Get(Res(r).promise).state
                          \in {Resolved, Canceled, Timedout})
                   => Res(r).status = StatusForbidden

\* With strict, a RejectPromise carrying the stored key got 403 on a
\* Resolved promise.
C10_Witness ==
    \E r \in Reqs :
        /\ FromTerminal(r) /\ reqs[r].strict
        /\ Res(r).status = StatusForbidden
        /\ Get(Res(r).promise).state = Resolved
        /\ reqs[r].ikey # Null
        /\ Get(Res(r).promise).ikc = reqs[r].ikey

\* RejectPromise r answered 201 and carried the idempotency key of q, which
\* is present: q repeats r's request.
Repeats(q, r) ==
    /\ q # r
    /\ reqs[q].kind = "Reject" /\ reqs[r].kind = "Reject"
    /\ reqs[q].id = reqs[r].id
    /\ reqs[r].ikey # Null /\ reqs[q].ikey = reqs[r].ikey
    /\ Answered(r) /\ Res(r).status = StatusCreated

\* The fields of a promise other than its timestamps
SansTimestamps(p) ==
    [id |-> p.id, state |-> p.state, param |-> p.param, value |-> p.value,
     timeout |-> p.timeout, ikCreate |-> p.ikCreate, ikc |-> p.ikc,
     tags |-> p.tags]

\* C11: when a RejectPromise with a key k has responded 201, every
\* repetition of it (same id, same k, strict or not) that found the promise
\* and responds, responds 200 with a promise equal to the first response's but for the
\* timestamps, and no step of the repetition changes a table of the store.
C11_RejectIdempotent ==
    /\ [](\A q, r \in Reqs :
            (Repeats(q, r) /\ Answered(q) /\ Res(q).via # "notfound") =>
                /\ Res(q).status = StatusOK
                /\ SansTimestamps(Get(Res(q).promise)) =
                       SansTimestamps(Get(Res(r).promise))
                /\ Res(q).promise = Scanned(promises, reqs[q].id))
    /\ [][\A q, r \in Reqs :
             (Repeats(q, r) /\ reqs'[q] # reqs[q]) =>
                 /\ promises' = promises
                 /\ subscriptions' = subscriptions
                 /\ notifications' = notifications]_vars

\* A strict repetition entered after the first request had been answered
\* 201, read the promise Rejected and was answered 200.
C11_Witness ==
    \E q, r \in Reqs :
        /\ Repeats(q, r) /\ Answered(q)
        /\ reqs[q].strict /\ reqs[q].losses = 0 /\ reqs[q].issuedAt = Null
        /\ Res(q).status = StatusOK

\* RejectPromise r is in the callback of a read that returned the promise
\* Pending, at a Time() at or after the promise's timeout.
ReadsExpired(r) ==
    /\ reqs[r].kind = "Reject" /\ reqs[r].pc = "read" /\ reqs[r].io = "ok"
    /\ reqs[r].p # Null
    /\ Get(reqs[r].p).state = Pending
    /\ time >= Get(reqs[r].p).timeout

\* C12: a RejectPromise that reads a Pending promise with Time() >= timeout
\* spawns TimeoutPromise and not its own update, and never makes the promise
\* Rejected; it responds 403 with a snapshot in state Timedout whose
\* completedOn is the timeout or, when the TimeoutPromise affected no row,
\* it re-runs and responds from the terminal branch with the stored promise.
C12_RejectAfterTimeout ==
    /\ [][\A r \in Reqs :
             (ReadsExpired(r) /\ reqs'[r] # reqs[r]) =>
                 /\ reqs'[r].pc = "timeout"
                 /\ reqs'[r].io = "wait"
                 /\ promises' = promises]_vars
    /\ [](\A r \in Reqs :
            (reqs[r].kind = "Reject" /\ reqs[r].expired) =>
                /\ ~ Won(r, "update")
                /\ reqs[r].pc \in {"timeout", "read", "done"}
                /\ Answered(r) =>
                      IF Won(r, "timeout")
                      THEN /\ Res(r).via = "timedout"
                           /\ Res(r).status = StatusForbidden
                           /\ Get(Res(r).promise).state = Timedout
                           /\ Get(Res(r).promise).completedOn =
                                 Some(Get(Res(r).promise).timeout)
                           /\ Row(promises, reqs[r].id).state = Timedout
                      ELSE /\ Res(r).via = "terminal"
                           /\ reqs[r].losses = 1
                           /\ Res(r).promise = Scanned(promises, reqs[r].id)
                           /\ Get(Res(r).promise).state \in Terminal)

\* A RejectPromise read its promise Pending at the timeout, its
\* TimeoutPromise made the transition and it was answered 403.
C12_Witness ==
    \E r \in Reqs :
        /\ reqs[r].kind = "Reject" /\ reqs[r].expired /\ Answered(r)
        /\ Won(r, "timeout")
        /\ Res(r).status = StatusForbidden
        /\ Get(Res(r).promise).timeout = time

\* The response NotFound, with no promise
NotFoundResponse ==
    [via |-> "notfound", status |-> StatusNotFound, promise |-> Null,
     err |-> FALSE]

\* C13: a ReadPromise or RejectPromise whose read finds no promise with its
\* id responds 404 with no promise in the response, after that one read and
\* without having issued a write: the read returns no record exactly when
\* no promise is stored and changes no table, and the callback of a read
\* that returned no record responds NotFound at once.
C13_NotFound ==
    /\ [][\A r \in Reqs :
             /\ (reqs[r].pc = "read" /\ reqs[r].io = "wait"
                     /\ reqs'[r].io = "ok") =>
                    /\ reqs'[r].p = Null <=> ~ Exists(promises, reqs[r].id)
                    /\ promises' = promises
                    /\ subscriptions' = subscriptions
                    /\ notifications' = notifications
             /\ (reqs[r].pc = "read" /\ reqs[r].io = "ok"
                     /\ reqs[r].p = Null /\ reqs'[r] # reqs[r]) =>
                    /\ reqs'[r].pc = "done"
                    /\ reqs'[r].res = Some(NotFoundResponse)
                    /\ promises' = promises]_vars
    /\ [](\A r \in Reqs :
            (Answered(r) /\ Res(r).status = StatusNotFound) =>
                /\ Res(r) = NotFoundResponse
                /\ reqs[r].losses = 0
                /\ reqs[r].issuedAt = Null
                /\ ~ reqs[r].expired
                /\ reqs[r].calls = 1)

\* A ReadPromise and a RejectPromise were both answered 404 and no promise
\* is stored.
C13_Witness ==
    /\ \A id \in PIds : ~ Exists(promises, id)
    /\ \E q, r \in Reqs :
          /\ reqs[q].kind = "Read" /\ reqs[r].kind = "Reject"
          /\ Answered(q) /\ Res(q) = NotFoundResponse
          /\ Answered(r) /\ Res(r) = NotFoundResponse

\* C14: on every path (not found, terminal, successful update, lost update
\* with re-spawn, lazy timeout with re-spawn, store error) the response
\* callback of a ReadPromise or RejectPromise request is invoked at most
\* once: the count of its invocations never exceeds one, it is one exactly
\* when the coroutine has ended, and a request that has been answered takes
\* no further step.
C14_RespondsAtMostOnce ==
    /\ [](\A r \in Reqs :
            /\ reqs[r].calls <= 1
            /\ reqs[r].calls = 1 <=> Done(r)
            /\ reqs[r].calls = 1 <=> reqs[r].res # Null)
    /\ [][\A r \in Reqs : Done(r) => reqs'[r] = reqs[r]]_vars

\* One request was answered after losing its update and re-running, another
\* was answered with a store error, each once.
C14_Witness ==
    \E q, r \in Reqs :
        /\ Done(q) /\ reqs[q].losses = 1 /\ reqs[q].calls = 1
        /\ Done(r) /\ Res(r).err /\ reqs[r].calls = 1

\* C15: every ReadPromise or RejectPromise request that entered the kernel
\* is eventually answered, whatever the other requests and the sweeper do,
\* when the store completes every submission and the scheduler runs every
\* callback.
C15_EventuallyResponds ==
    \A r \in Reqs : (reqs[r].pc # "init") ~> Done(r)

\* A RejectPromise lost its update to another, re-ran and was answered.
C15_Witness ==
    \E r \in Reqs :
        /\ reqs[r].kind = "Reject" /\ Done(r)
        /\ reqs[r].losses = 1 /\ reqs[r].issuedAt # Null

\* The response res(nil, err)
ErrorResponse ==
    [via |-> "error", status |-> 0, promise |-> Null, err |-> TRUE]

\* C16: when the store returns an error for the read of a ReadPromise or a
\* RejectPromise, or for the update of a RejectPromise, the next step of the
\* coroutine invokes the response callback with the error and no response,
\* and ends the coroutine: it submits nothing more and does not retry.
C16_ErrorsPropagate ==
    /\ [][\A r \in Reqs :
             (/\ reqs[r].pc \in {"read", "update"}
              /\ reqs[r].io = "err"
              /\ reqs'[r] # reqs[r]) =>
                 /\ reqs'[r].pc = "done"
                 /\ reqs'[r].io = "none"
                 /\ reqs'[r].res = Some(ErrorResponse)
                 /\ reqs'[r].calls = reqs[r].calls + 1
                 /\ reqs'[r].losses = reqs[r].losses
                 /\ promises' = promises
                 /\ subscriptions' = subscriptions
                 /\ notifications' = notifications]_vars
    /\ [][\A r \in Reqs :
             (Done(r) /\ Res(r).err) => reqs'[r] = reqs[r]]_vars

\* The store failed the update of a RejectPromise: the request was answered
\* with the error and the promise is still Pending.
C16_Witness ==
    \E r \in Reqs :
        /\ Done(r) /\ Res(r) = ErrorResponse
        /\ reqs[r].kind = "Reject" /\ reqs[r].issuedAt # Null
        /\ reqs[r].losses = 0
        /\ Row(promises, reqs[r].id).state = Pending

\* The coroutines whose submission the store completes in this step
Completed == {r \in Reqs : reqs[r].io = "wait" /\ reqs'[r].io # "wait"}

\* This step leaves the tables of the store as they were
TablesUnchanged ==
    /\ promises' = promises
    /\ subscriptions' = subscriptions
    /\ notifications' = notifications

\* C17 as stated: Execute is all-or-nothing for each transaction: if a
\* command of the transaction fails, or the commit fails, its coroutine gets
\* an error and no results and the tables are unchanged; otherwise its
\* commands take effect and it gets their results.
C17_TransactionAllOrNothing ==
    [][\A r \in Completed :
          IF reqs'[r].fault \in {"command", "commit"}
          THEN reqs'[r].io = "err" /\ TablesUnchanged
          ELSE reqs'[r].io = "ok"]_vars

\* C17 as amended: Execute is all-or-nothing for the list of transactions
\* it is given: if a command of any of them fails, or the commit fails,
\* every coroutine of the batch gets an error and no results, and no table
\* changes; otherwise the commands of all of them take effect, in list
\* order, and every coroutine gets the results of its own.
C17_BatchAllOrNothing ==
    [][Completed # {} =>
          \/ /\ \A r \in Completed :
                   /\ reqs'[r].io = "err"
                   /\ reqs'[r].fault # "none"
                   /\ reqs'[r].rows = 0
                   /\ reqs'[r].p = reqs[r].p
             /\ \E r \in Completed : reqs'[r].fault # "batch"
             /\ TablesUnchanged
             /\ winner' = winner
          \/ /\ \A r \in Completed :
                   reqs'[r].io = "ok" /\ reqs'[r].fault = "none"
             /\ \E batch \in Batches :
                   /\ Members(batch) = Completed
                   /\ LET out == performTransactions(
                                     DB, TransactionsOf(batch), << >>,
                                     <<0, 0>>)
                      IN  /\ promises' = out.db.p
                          /\ subscriptions' = out.db.s
                          /\ notifications' = out.db.n
                          /\ \A i \in DOMAIN batch :
                                IF reqs[batch[i]].pc = "read"
                                THEN reqs'[batch[i]].p =
                                        out.results[i][1].record
                                ELSE reqs'[batch[i]].rows =
                                        out.results[i][1].rows
      ]_vars

\* Two completion transactions were executed in one batch; the second
\* command of one failed after its update had been performed, the other was
\* rolled back with it, and the promise is still Pending.
C17_Witness ==
    \E q, r \in Reqs :
        /\ reqs[q].pc = "update" /\ reqs[q].io = "err"
        /\ reqs[q].fault = "command"
        /\ reqs[r].pc = "update" /\ reqs[r].io = "err"
        /\ reqs[r].fault = "batch"
        /\ Row(promises, reqs[q].id).state = Pending

\* The step commits a transaction of the sweeper that timed a promise out
SweeperCommits ==
    \E id \in PIds :
        /\ winner[id] = Null
        /\ winner'[id] = Some([by |-> "sweeper", r |-> 0])

\* The rows of a table of subscriptions or notifications for promise id
Of(rows, id) == {row \in rows : row.promiseId = id}

\* C18: when the sweeper's transaction for a time t commits, every promise
\* that was Pending with timeout <= t is Timedout with completedOn its own
\* timeout, none of its subscriptions remains and each subscription it had
\* has one notification, with time t and attempt 0; the promises that were
\* terminal or had a later timeout, their subscriptions and their
\* notifications are unchanged.
C18_SweepCascade ==
    [][SweeperCommits =>
          \E t \in 0 .. time : \A id \in PIds :
              IF id \in Expiring(promises, t)
              THEN /\ Row(promises', id) =
                         [Row(promises, id) EXCEPT
                             !.state = Timedout,
                             !.completedOn = Some(Row(promises, id).timeout)]
                   /\ Of(subscriptions', id) = {}
                   /\ \A s \in Of(subscriptions, id) :
                         /\ Cardinality({n \in notifications' :
                                n.id = s.id /\ n.promiseId = id}) = 1
                         /\ \E n \in notifications' :
                                /\ n.id = s.id /\ n.promiseId = id
                                /\ n.url = s.url
                                /\ n.retryPolicy = s.retryPolicy
                                /\ n.time = t /\ n.attempt = 0
                   /\ Cardinality(Of(notifications', id)) =
                         Cardinality(Of(subscriptions, id))
              ELSE /\ promises'[id] = promises[id]
                   /\ Of(subscriptions', id) = Of(subscriptions, id)
                   /\ Of(notifications', id) = Of(notifications, id)
      ]_vars

\* The sweeper timed out a promise that had two subscriptions, and left
\* alone a Pending promise with a later timeout and its subscription.
C18_Witness ==
    \E id, other \in PIds :
        /\ winner[id] = Some([by |-> "sweeper", r |-> 0])
        /\ Row(promises, id).state = Timedout
        /\ Cardinality(Of(notifications, id)) = 2
        /\ \A n \in Of(notifications, id) : n.time = Row(promises, id).timeout
        /\ Exists(promises, other)
        /\ Row(promises, other).state = Pending
        /\ Of(subscriptions, other) # {}

\* The step takes promise id out of Pending
Transitions(id) ==
    /\ Exists(promises, id)
    /\ Row(promises, id).state = Pending
    /\ Row(promises', id).state # Pending

\* C19: when the sweeper, the TimeoutPromise of a read and completions race
\* on a promise, one transaction takes it out of Pending and the others
\* affect no row and leave its record as it is; the subscriptions it had
\* are deleted in that step and each has exactly one notification from then
\* on: never none, never two.
C19_OneTransitionOneNotification ==
    /\ [][\A id \in PIds :
             /\ Transitions(id) =>
                   /\ winner[id] = Null /\ winner'[id] # Null
                   /\ Of(subscriptions', id) = {}
                   /\ \A s \in Of(subscriptions, id) :
                         Cardinality({n \in notifications' :
                             n.id = s.id /\ n.promiseId = id}) = 1
             /\ winner[id] # Null =>
                   /\ promises'[id] = promises[id]
                   /\ winner'[id] = winner[id]
                   /\ Of(notifications, id) \subseteq Of(notifications', id)
      ]_vars
    /\ [](\A n1, n2 \in notifications :
            (n1.id = n2.id /\ n1.promiseId = n2.promiseId) => n1 = n2)
    /\ [](\A r \in Reqs :
            /\ (reqs[r].pc \in {"update", "timeout"} /\ reqs[r].io = "ok") =>
                   (reqs[r].rows = 1 <=> Won(r, reqs[r].pc))
            /\ reqs[r].losses > 0 =>
                   /\ winner[reqs[r].id] # Null
                   /\ ~ Won(r, "update") /\ ~ Won(r, "timeout"))

\* The sweeper timed out a promise with a subscription; the TimeoutPromise
\* of a ReadPromise and the update of a RejectPromise both lost to it.
C19_Witness ==
    \E q, r \in Reqs, id \in PIds :
        /\ winner[id] = Some([by |-> "sweeper", r |-> 0])
        /\ reqs[q].id = id /\ reqs[r].id = id
        /\ reqs[q].kind = "Read" /\ reqs[q].expired /\ reqs[q].losses = 1
        /\ reqs[r].kind = "Reject" /\ reqs[r].issuedAt # Null
        /\ reqs[r].losses = 1
        /\ Of(notifications, id) # {}
        /\ Row(promises, id).state = Timedout

\* The insert of CreatePromise r reported rowsAffected = 1
CreatedBy(r) ==
    /\ reqs[r].kind = "Create"
    /\ \/ reqs[r].pc = "create" /\ reqs[r].io = "ok" /\ reqs[r].rows = 1
       \/ Answered(r) /\ Res(r).via = "created"

\* The columns PROMISE_INSERT_STATEMENT writes, but for the state
CreationFields(p) ==
    [id |-> p.id, param |-> p.param, timeout |-> p.timeout,
     ikCreate |-> p.ikCreate, tags |-> p.tags, createdOn |-> p.createdOn]

\* C20: of the CreatePromise commands for one id, whatever their order,
\* exactly one reports rowsAffected = 1, and its request responds 201; the
\* others report 0.  The record is stored Pending with no value and no
\* completedOn, and its id, param, timeout, idempotencyKeyForCreate, tags
\* and createdOn are those of the winning command, which no later create,
\* update or timeout command changes.
C20_OneCreateWins ==
    /\ [](\A id \in PIds :
            Cardinality({r \in Reqs : reqs[r].id = id /\ CreatedBy(r)}) =
                IF Exists(promises, id) THEN 1 ELSE 0)
    /\ [](\A r \in Reqs :
            /\ CreatedBy(r) =>
                  /\ Exists(promises, reqs[r].id)
                  /\ CreationFields(Row(promises, reqs[r].id)) =
                        CreationFields(InsertedPromise(
                            CreateSubmission(reqs[r])[1]))
            /\ (reqs[r].kind = "Create" /\ Answered(r)) =>
                  IF CreatedBy(r)
                  THEN /\ Res(r).status = StatusCreated
                       /\ reqs[r].losses = 0
                       /\ Get(Res(r).promise) =
                             InsertedPromise(CreateSubmission(reqs[r])[1])
                  ELSE /\ Res(r).status \in {StatusOK, StatusConflict}
                       /\ reqs[r].losses = 1
                       /\ CreationFields(Get(Res(r).promise)) =
                             CreationFields(Row(promises, reqs[r].id)))
    /\ [][\A id \in PIds :
             IF Exists(promises, id)
             THEN /\ Exists(promises', id)
                  /\ CreationFields(Row(promises', id)) =
                        CreationFields(Row(promises, id))
             ELSE Exists(promises', id) =>
                  /\ Row(promises', id).state = Pending
                  /\ Row(promises', id).value = Null
                  /\ Row(promises', id).ikc = Null
                  /\ Row(promises', id).completedOn = Null
                  /\ \E r \in Reqs : ~ CreatedBy(r) /\ CreatedBy(r)'
      ]_vars

\* Two CreatePromise requests with different timeouts raced on one id: one
\* was answered 201, the other found the row there; the promise has since
\* been completed and still has the timeout of the first.
C20_Witness ==
    \E q, r \in Reqs :
        /\ q # r /\ reqs[q].id = reqs[r].id
        /\ CreatedBy(q) /\ Answered(q)
        /\ reqs[r].kind = "Create" /\ Answered(r) /\ reqs[r].losses = 1
        /\ Get(reqs[q].create).timeout # Get(reqs[r].create).timeout
        /\ Row(promises, reqs[q].id).state \in {Resolved, Timedout}
        /\ Row(promises, reqs[q].id).timeout = Get(reqs[q].create).timeout


(* Searches *)

\* The page the step of search r returned, when the step is a page of r
PageOf(r) == Get(Get(reqs'[r].search).page)
Paged(r) ==
    /\ reqs[r].pc = "search"
    /\ Get(reqs'[r].search).pages # Get(reqs[r].search).pages

StatesOf(cmd) == {cmd.states[i] : i \in DOMAIN cmd.states}
Below(row, cmd) == cmd.sortId = Null \/ row.sortId < Get(cmd.sortId)

\* id matches q, a glob: * stands for any run of characters and every other
\* character for itself
RECURSIVE Glob(_, _)
Glob(text, q) ==
    IF q = << >> THEN text = << >>
    ELSE IF Head(q) = "*"
    THEN \E k \in 0 .. Len(text) :
            Glob(SubSeq(text, k + 1, Len(text)), Tail(q))
    ELSE /\ text # << >>
         /\ Head(q) = Head(text)
         /\ Glob(Tail(text), Tail(q))

\* The stored promises of the requested states, below the cursor, whose id
\* matches q
GlobMatches(cmd) ==
    {Row(promises, id) : id \in
        {id \in PIds : /\ Exists(promises, id)
                       /\ Row(promises, id).state \in StatesOf(cmd)
                       /\ Below(Row(promises, id), cmd)
                       /\ Glob(IdText(id), cmd.q)}}

\* records are the limit rows of largest sortId among rows, in strictly
\* descending order of sortId, counted by RowsReturned and ended by the row
\* of LastSortId
IsPageOf(page, rows) ==
    LET records == page.records
        returned == {records[i] : i \in DOMAIN records}
    IN  /\ returned \subseteq rows
        /\ Len(records) = IF Cardinality(rows) < page.cmd.limit
                          THEN Cardinality(rows) ELSE page.cmd.limit
        /\ \A row \in returned, other \in rows \ returned :
              other.sortId < row.sortId
        /\ \A i, j \in DOMAIN records :
              i < j => records[j].sortId < records[i].sortId
        /\ page.rows = Len(records)
        /\ records # << >> => page.lastSortId = records[Len(records)].sortId

\* C24: SearchPromises(cursor, states, q, limit) returns exactly the promises
\* whose state is one of the requested states, whose sortId is below the
\* cursor (any sortId when the cursor is null) and whose id matches the glob
\* q, restricted to the limit ones of largest sortId, in strictly descending
\* sortId order; RowsReturned is the number of records and LastSortId the
\* sortId of the last record.
C24_SearchReturnsMatches ==
    [][\A r \in Reqs :
          Paged(r) => IsPageOf(PageOf(r), GlobMatches(PageOf(r).cmd))]_vars

\* The ids a search returned, page after page
RECURSIVE Returned(_)
Returned(pages) ==
    IF pages = << >> THEN << >>
    ELSE Returned(SubSeq(pages, 1, Len(pages) - 1)) \o
         [i \in DOMAIN pages[Len(pages)] |-> pages[Len(pages)][i].id]

\* The promises the query and the state mask of search s select now
MatchesNow(s) ==
    Selected(promises, [SearchCommand(s) EXCEPT !.sortId = Null])

\* C21: when a search that began with no cursor and passed each page's
\* LastSortId as the next cursor ends with a page of fewer rows than the
\* limit, the pages hold no id twice, and they hold every promise that
\* matched the query and the state mask from the first page to the last;
\* promises inserted meanwhile never make an id appear twice.
C21_PagingReturnsEachOnce ==
    [][\A r \in Reqs :
          (Paged(r) /\ reqs'[r].pc = "done"
                    /\ Get(reqs'[r].search).from = Null) =>
             LET s == Get(reqs'[r].search)
                 ids == Returned(s.pages)
             IN  /\ \A i, j \in DOMAIN ids : i # j => ids[i] # ids[j]
                 /\ \A id \in s.matched \cap MatchesNow(s) :
                       \E i \in DOMAIN ids : ids[i] = id]_vars

\* A search of three pages from no cursor has ended, having returned two
\* promises, and a promise inserted after its first page matches it too
C21_Witness ==
    \E r \in Reqs :
        /\ reqs[r].pc = "done" /\ reqs[r].search # Null
        /\ LET s == Get(reqs[r].search)
           IN  /\ s.from = Null
               /\ Len(s.pages) = 3
               /\ Len(Returned(s.pages)) = 2
               /\ MatchesNow(s) \ s.matched # {}

(* Timeout records *)

\* C22: a timeout record exists only while its promise is Pending: once a
\* RejectPromise or the sweeper has taken the promise out of Pending, no
\* timeout record with its id remains.
C22_TimeoutOnlyWhilePending ==
    \A id \in PIds :
        (/\ Exists(promises, id)
         /\ Row(promises, id).state # Pending
         /\ winner[id] # Null
         /\ Get(winner[id]).by \in {"update", "sweeper"}) =>
            ~ \E row \in timeouts : row.id = id

(* Notifications *)

SameKey(n, m) == n.id = m.id /\ n.promiseId = m.promiseId

\* C23: while the row of a notification key exists, no command of a
\* completion, of the sweeper or of the sender makes its stored attempt
\* smaller, and a command that creates notifications leaves every row that
\* exists as it is: a repeated CreateNotifications for a key neither resets
\* its attempt to 0 nor changes its time.
C23_AttemptNeverDecreases ==
    [][/\ \A n \in notifications : \A m \in notifications' :
             SameKey(n, m) => n.attempt <= m.attempt
       /\ deliveries' = deliveries => notifications \subseteq notifications']_vars

(* Completion times *)

\* C25: every stored Rejected promise has completedOn strictly below its
\* timeout, and every stored Timedout promise has completedOn equal to its
\* timeout.
C25_CompletedOnAgainstTimeout ==
    \A id \in PIds :
        Exists(promises, id) =>
            LET row == Row(promises, id) IN
            /\ row.state = Rejected => Get(row.completedOn) < row.timeout
            /\ row.state = Timedout => Get(row.completedOn) = row.timeout

\* A promise was rejected in the last tick before its timeout, by a
\* transaction that committed when the timeout had passed
C25_Witness ==
    \E id \in PIds :
        /\ Exists(promises, id) /\ Row(promises, id).state = Rejected
        /\ Get(Row(promises, id).completedOn) + 1 = Row(promises, id).timeout
        /\ Get(Row(promises, id).completedOn) > 0
        /\ Row(promises, id).timeout <= time

(* Transactions that lose *)

\* The step in which the store executes the completion transaction of
\* RejectPromise r and its UpdatePromise affects no row
LosesUpdate(r) ==
    /\ reqs[r].kind = "Reject" /\ reqs[r].pc = "update"
    /\ reqs[r].io = "wait"
    /\ reqs'[r].io = "ok" /\ reqs'[r].rows = 0

\* C26: a completion transaction of RejectPromise whose UpdatePromise loses
\* the CAS leaves the subscriptions and the notifications tables unchanged.
C26_LoserChangesNothing ==
    [][\A r \in Reqs :
          LosesUpdate(r) => /\ subscriptions' = subscriptions
                            /\ notifications' = notifications]_vars

(* Batches *)

\* The commands of a list of transactions, one after another
RECURSIVE Flat(_)
Flat(transactions) ==
    IF transactions = << >> THEN << >>
    ELSE Head(transactions) \o Flat(Tail(transactions))

\* The number of commands of the transactions before transaction i
Before(transactions, i) == Len(Flat(SubSeq(transactions, 1, i - 1)))

\* C27: the transactions handed to one call of Execute run in a single
\* database transaction.  If a command of any of them fails, or the commit
\* fails, Execute returns an error and no results and the database is as it
\* was before the call; otherwise the database is the one that the commands
\* of all the transactions, applied one after another in list order, leave,
\* and results[i][j] is the result of command j of transaction i in that
\* run.
C27_ExecuteIsOneTransaction ==
    \A batch \in Batches : \A fail \in FailPoints(batch) :
        \A commitFails \in BOOLEAN :
            LET transactions == TransactionsOf(batch)
                out == ExecuteTransactions(DB, transactions, fail,
                                           commitFails)
                run == Execute(DB, Flat(transactions))
            IN  IF fail # <<0, 0>> \/ commitFails
                THEN out.err /\ out.results = << >> /\ out.db = DB
                ELSE /\ ~ out.err
                     /\ out.db = run.db
                     /\ Len(out.results) = Len(transactions)
                     /\ \A i \in DOMAIN transactions :
                           /\ Len(out.results[i]) = Len(transactions[i])
                           /\ \A j \in DOMAIN transactions[i] :
                                 out.results[i][j] =
                                     run.results[Before(transactions, i) + j]

\* Two completion transactions for one promise were executed in one batch
\* and committed: the first took the promise, the second affected no row
C27_Witness ==
    \E q, r \in Reqs :
        /\ reqs[q].pc = "update" /\ reqs[q].io = "ok" /\ reqs[q].slot = 1
        /\ reqs[q].rows = 1
        /\ reqs[r].pc = "update" /\ reqs[r].io = "ok" /\ reqs[r].slot = 2
        /\ reqs[r].rows = 0
        /\ reqs[q].fault = "none" /\ reqs[r].fault = "none"

(* The order of the sweeper's commands *)

\* The three commands of the sweeper's transaction for time t, in every
\* order
Orders(t) ==
    {[i \in 1 .. 3 |-> SweepSubmission(t)[order[i]]] :
        order \in Permutations(1 .. 3)}

\* C28: TimeoutCreateNotifications(t) and TimeoutDeleteSubscriptions(t)
\* select by state = Pending and timeout <= t when they execute.  In the
\* order TimeoutCreateNotifications, TimeoutDeleteSubscriptions,
\* TimeoutPromises every subscription of a promise that times out gets its
\* notification and is deleted; in every other order such a promise gets no
\* notification or keeps its subscriptions.
C28_SweepCommandOrder ==
    \A t \in 0 .. time : \A commands \in Orders(t) :
        LET out == Execute(DB, commands)
            Notified(id) ==
                \A s \in Of(subscriptions, id) :
                    \E n \in out.db.n \ notifications : SameKey(n, s)
            Cleared(id) == Of(out.db.s, id) = {}
        IN  \A id \in Expiring(promises, t) :
                /\ Row(out.db.p, id).state = Timedout
                /\ Of(subscriptions, id) # {} =>
                      IF commands = SweepSubmission(t)
                      THEN Notified(id) /\ Cleared(id)
                      ELSE ~ Notified(id) \/ ~ Cleared(id)

\* The sweeper has timed out a promise and notified its subscription, and
\* another promise that has a subscription is due
C28_Witness ==
    \E id, other \in PIds :
        /\ id \in Expiring(promises, time)
        /\ Of(subscriptions, id) # {}
        /\ Exists(promises, other)
        /\ Row(promises, other).state = Timedout
        /\ winner[other] = Some([by |-> "sweeper", r |-> 0])
        /\ Of(notifications, other) # {}

(* Requests that only read *)

\* This step leaves the four tables of the store as they were
StoreUnchanged == TablesUnchanged /\ timeouts' = timeouts

\* The record RejectPromise r read is terminal, or the record ReadPromise r
\* read is terminal or Pending and not expired
ReadsSettled(r) ==
    /\ reqs[r].pc = "read" /\ reqs[r].io = "ok" /\ reqs[r].p # Null
    /\ LET p == Get(reqs[r].p)
       IN  IF reqs[r].kind = "Reject"
           THEN p.state \in Terminal
           ELSE reqs[r].kind = "Read" /\ (p.state \in Terminal
                                          \/ time < p.timeout)

\* C29: a RejectPromise on an already-terminal promise, and a ReadPromise on
\* a terminal or a Pending and unexpired promise, issue one submission of
\* the single command ReadPromise, whose execution leaves the promises,
\* timeouts, subscriptions and notifications tables as they were, and then
\* respond with the promise read without yielding anything else.
C29_ReadOnlyRequests ==
    /\ [](\A r \in Reqs :
             (/\ Answered(r) /\ Res(r).via \in {"read", "terminal"}
              /\ reqs[r].losses = 0 /\ ~ reqs[r].expired) =>
                 reqs[r].yields = 1 /\ reqs[r].reads = 1)
    /\ [][\A r \in Reqs :
             /\ (/\ reqs[r].pc = "read" /\ reqs[r].io = "wait"
                 /\ reqs'[r].io = "ok") =>
                    /\ Submission(reqs[r]) =
                          << [kind |-> "ReadPromise", id |-> reqs[r].id] >>
                    /\ StoreUnchanged
             /\ (ReadsSettled(r) /\ reqs'[r] # reqs[r]) =>
                    /\ reqs'[r].pc = "done" /\ reqs'[r].io = "none"
                    /\ reqs'[r].yields = reqs[r].yields
                    /\ Get(reqs'[r].res).promise = reqs[r].p
                    /\ ~ Get(reqs'[r].res).err
                    /\ StoreUnchanged]_vars

\* A ReadPromise answered with the Pending promise it read and a
\* RejectPromise answered from its first read, of the promise terminal,
\* while the promise has a timeout record
C29_Witness ==
    \E q, r \in Reqs :
        /\ reqs[q].kind = "Read" /\ Answered(q) /\ Res(q).via = "read"
        /\ Get(Res(q).promise).state = Pending /\ reqs[q].yields = 1
        /\ reqs[r].kind = "Reject" /\ Answered(r) /\ Res(r).via = "terminal"
        /\ reqs[r].yields = 1
        /\ \E row \in timeouts : row.id = reqs[r].id

(* Lost updates *)

\* C30: a RejectPromise request loses the CAS of an update at most once and
\* reads the promise at most twice: after a loss it issues no other write,
\* its next read finds the promise terminal, and it responds from the
\* terminal branch.
C30_LosesAtMostOnce ==
    \A r \in Reqs :
        reqs[r].kind = "Reject" =>
            /\ reqs[r].losses <= 1
            /\ reqs[r].reads <= 2
            /\ reqs[r].losses = 1 =>
                  /\ reqs[r].pc \in {"read", "done"}
                  /\ reqs[r].yields = 3 /\ reqs[r].reads = 2
                  /\ (reqs[r].pc = "read" /\ reqs[r].io = "ok") =>
                        /\ reqs[r].p # Null
                        /\ Get(reqs[r].p).state \in Terminal
                  /\ Answered(r) => Res(r).via = "terminal"

\* A RejectPromise lost its update to another RejectPromise, read the
\* promise a second time and responded from the terminal branch
C30_Witness ==
    \E w, l \in Reqs :
        /\ Won(w, "update")
        /\ reqs[l].kind = "Reject" /\ reqs[l].losses = 1
        /\ reqs[l].issuedAt # Null
        /\ reqs[l].reads = 2
        /\ Answered(l) /\ Res(l).via = "terminal"
=============================================================================
